---- MODULE Spec2Model ----
(***************************************************************************)
(* Execution orchestration of the agent platform: the Execution State      *)
(* Container (lib/store/execution-store.ts), the Persistence Layer         *)
(* (StorageService), the Execution Orchestrator (ExecutionService) and the *)
(* submission handler of ChatContainer with its poll timers.               *)
(***************************************************************************)
EXTENDS Integers, Sequences, FiniteSets, TLC

VARIABLES
    executions,        \* store: agentId -> list of Execution (key absent = no list)
    currentExecution,  \* store: Execution or Null
    isExecuting,       \* store: boolean flag
    localStorage,      \* durable key -> stored value (key absent = no item)
    nextId,            \* next fresh identifier (uuid generation)
    addSeq,            \* history: execution id -> rank of the completion of its add
    pc,                \* submission -> position inside handleSubmit / executeAgent
    subAgent,          \* submission -> agentId prop of the submitting ChatContainer
    initialExecution,  \* submission -> id of the Execution handleSubmit added
    execution,         \* submission -> the Execution object built by executeAgent
    response,          \* submission -> how the transport call of executeAgent ended
    pollRet,           \* submission -> what pollForResult returned
    pollInterval,      \* submission -> the repeating poll timer is scheduled
    pollTimeout,       \* submission -> the overall poll-timeout timer is scheduled
    inFlight,          \* submission -> poll requests sent and not yet answered
    storageFaults,      \* environment: storage calls that did not succeed at once
    running,           \* submission whose synchronous block is executing (0 = none)
    thrown,            \* submission -> the error raised into the catch of handleSubmit
    triggerCalls,      \* history: submission -> calls of triggerWorkflow made for it
    hydrated,          \* history: agents whose stored history loadHistory has read
    retry,             \* one call of retryWithBackoff: its locals and its outcome
    save,              \* one call of StorageService.saveExecutions, setItem by setItem
    call               \* the last call of a function driven directly: its inputs and its outcome

subVars == <<pc, subAgent, initialExecution, execution, response, pollRet, pollInterval, pollTimeout,
             inFlight, running, thrown, triggerCalls>>
libVars == <<retry, save, call>>
storeVars == <<executions, currentExecution, isExecuting, localStorage, nextId, addSeq,
               storageFaults, hydrated>>
vars == <<executions, currentExecution, isExecuting, localStorage, nextId, addSeq,
          storageFaults,
          pc, subAgent, initialExecution, execution, response, pollRet, pollInterval,
          pollTimeout, inFlight, running, thrown, triggerCalls, hydrated, retry, save, call>>

-----------------------------------------------------------------------------
(* Bounds of the model *)

MaxSubmissions == 2      \* submissions made in one behaviour
MaxInFlight == 1         \* unanswered poll requests per submission
MaxAdds == 1             \* executions added directly to the store in one behaviour
MaxStorageFaults == 1    \* storage calls that fail or find the storage unavailable

(* Program constants *)

MAX_EXECUTIONS_PER_AGENT == 50
QUOTA_FIRST_REDUCTION == 10
QUOTA_FINAL_REDUCTION == 5
FREE_UP_LIMIT == 10

-----------------------------------------------------------------------------
(* Values *)

Undefined == [undefined |-> TRUE]
Null == [null |-> TRUE]
DateValue == [date |-> "Date"]
ISOString == [date |-> "ISOString"]

VEO3_AGENT == "veo3-video-generator"
PLAIN_AGENT == "plain-agent"
MISSING_AGENT == "missing-agent"

\* Agent ids a submission can be made for.
AgentIds == {VEO3_AGENT, PLAIN_AGENT, MISSING_AGENT}

\* The registry: agents with their settings.maxExecutionTime and
\* settings.retryAttempts (0 = not set) and their outputSchema.type.
AGENTS == [a \in {VEO3_AGENT, PLAIN_AGENT} |->
             [maxExecutionTime |-> IF a = VEO3_AGENT THEN 300000 ELSE 0,
              retryAttempts |-> IF a = VEO3_AGENT THEN 3 ELSE 0,
              outputType |-> IF a = VEO3_AGENT THEN "video" ELSE "json"]]

Min(a, b) == IF a < b THEN a ELSE b

\* Array.prototype.slice(0, n)
slice(s, n) == SubSeq(s, 1, Min(n, Len(s)))

Put(f, k, v) == [x \in (DOMAIN f) \cup {k} |-> IF x = k THEN v ELSE f[x]]
Remove(f, k) == [x \in (DOMAIN f) \ {k} |-> f[x]]
EmptyMap == [x \in {} |-> Undefined]

Ids(list) == {list[i].id : i \in 1..Len(list)}
IdSeq(list) == [i \in 1..Len(list) |-> list[i].id]

Terminal == {"completed", "failed"}
Active == {"pending", "processing"}

-----------------------------------------------------------------------------
(* Execution records *)

\* ChatContainer.handleSubmit: the initial Execution, and ExecutionService.createExecution
createExecution(id, agentId) ==
    [id |-> id, agentId |-> agentId, status |-> "pending",
     output |-> Undefined, error |-> Undefined,
     createdAt |-> DateValue, completedAt |-> Undefined]

\* { ...old, ...updates }: the keys of updates overwrite, also with undefined
merge(old, updates) ==
    [k \in DOMAIN old |-> IF k \in DOMAIN updates THEN updates[k] ELSE old[k]]

\* JSON.stringify of one Execution: Dates become ISO strings, an Error object
\* in error.details becomes {}.
toJSON(e) ==
    [e EXCEPT !.createdAt = ISOString,
              !.completedAt = IF @ = Undefined THEN Undefined ELSE ISOString,
              !.error = IF @ = Undefined THEN Undefined
                        ELSE [@ EXCEPT !.details = IF @ = "Error" THEN "{}" ELSE @]]

stringify(list) == [i \in 1..Len(list) |-> toJSON(list[i])]

\* StorageService.loadExecutions: the map over the parsed array
revive(j) ==
    [j EXCEPT !.createdAt = DateValue,
              !.completedAt = IF @ = Undefined THEN Undefined ELSE DateValue]

-----------------------------------------------------------------------------
(* Persistence Layer *)

getExecutionKey(agentId) == <<"ai-agent-platform:executions:", agentId>>

\* StorageService.getAgentIdsWithExecutions
getAgentIdsWithExecutions(ls) == {k[2] : k \in {x \in DOMAIN ls : x[1] = "ai-agent-platform:executions:"}}

\* StorageService.loadExecutions
loadExecutions(ls, agentId) ==
    IF getExecutionKey(agentId) \in DOMAIN ls
    THEN [i \in 1..Len(ls[getExecutionKey(agentId)]) |-> revive(ls[getExecutionKey(agentId)][i])]
    ELSE <<>>

\* StorageService.freeUpSpace: the agents in `written` are those whose
\* truncating setItem is reached and succeeds.
freeUpSpace(ls, written) ==
    [k \in DOMAIN ls |->
        IF /\ k[1] = "ai-agent-platform:executions:"
           /\ k[2] \in written
           /\ Len(ls[k]) > FREE_UP_LIMIT
        THEN stringify(slice(loadExecutions(ls, k[2]), FREE_UP_LIMIT))
        ELSE ls[k]]

\* Outcomes of the setItem calls of one saveExecutions call.
SaveKinds == {"ok", "unavailable", "otherError", "quota10", "quota5", "quotaThrow"}
SaveOutcomes(agentSets) ==
    {[kind |-> k, written |-> {}] : k \in {"ok", "unavailable", "otherError", "quota10"}}
    \cup {[kind |-> k, written |-> w] : k \in {"quota5", "quotaThrow"}, w \in agentSets}

\* StorageService.handleQuotaExceeded
handleQuotaExceeded(ls, agentId, list, q) ==
    IF q.kind = "quota10"
    THEN Put(ls, getExecutionKey(agentId), stringify(slice(list, QUOTA_FIRST_REDUCTION)))
    ELSE IF q.kind = "quota5"
    THEN Put(freeUpSpace(ls, q.written), getExecutionKey(agentId),
             stringify(slice(list, QUOTA_FINAL_REDUCTION)))
    ELSE freeUpSpace(ls, q.written)

\* StorageService.saveExecutions: the storage after the call
saveExecutions(ls, agentId, list, q) ==
    IF q.kind \in {"unavailable", "otherError"} THEN ls
    ELSE IF q.kind = "ok"
    THEN Put(ls, getExecutionKey(agentId), stringify(slice(list, MAX_EXECUTIONS_PER_AGENT)))
    ELSE handleQuotaExceeded(ls, agentId, list, q)

\* saveExecutions raises QuotaExceededError to its caller
saveThrows(q) == q.kind = "quotaThrow"

\* A variant of clearExecutions that leaves the key in place.
clearExecutionsKeepingKey(ls, agentId) == ls

\* StorageService.clearExecutions
clearExecutions(ls, agentId) == Remove(ls, getExecutionKey(agentId))

-----------------------------------------------------------------------------
(* Execution State Container *)

\* A variant of prepend that makes room by dropping the newest old entry.
prependDroppingNewest(e, agentExecutions) ==
    IF Len(agentExecutions) >= MAX_EXECUTIONS_PER_AGENT
    THEN <<e>> \o SubSeq(agentExecutions, 2, MAX_EXECUTIONS_PER_AGENT)
    ELSE <<e>> \o agentExecutions

\* [execution, ...agentExecutions].slice(0, MAX_EXECUTIONS_PER_AGENT)
prepend(e, agentExecutions) == slice(<<e>> \o agentExecutions, MAX_EXECUTIONS_PER_AGENT)

\* executions[agentId] || []
listOf(execs, agentId) == IF agentId \in DOMAIN execs THEN execs[agentId] ELSE <<>>

\* execution.status === 'pending' || execution.status === 'processing'
executing(e) == e # Null /\ e.status \in Active

\* useExecutionStore.addExecution
addExecution(e, q) ==
    LET updatedExecutions == prepend(e, listOf(executions, e.agentId)) IN
    /\ executions' = Put(executions, e.agentId, updatedExecutions)
    /\ currentExecution' = e
    /\ isExecuting' = executing(e)
    /\ localStorage' = saveExecutions(localStorage, e.agentId, updatedExecutions, q)
    /\ addSeq' = Put(addSeq, e.id, Cardinality(DOMAIN addSeq) + 1)
    /\ UNCHANGED hydrated

\* A variant of replaceById that moves the updated entry to the front.
replaceByIdMovingToFront(agentExecutions, executionId, updatedExecution) ==
    <<updatedExecution>> \o SelectSeq(agentExecutions, LAMBDA e : e.id # executionId)

\* A variant of replaceById that puts the updated entry in front of the list
\* and keeps the old one.
replaceByIdKeepingOld(agentExecutions, executionId, updatedExecution) ==
    <<updatedExecution>> \o agentExecutions

\* agentExecutions.map((e) => e.id === executionId ? updatedExecution : e)
replaceById(agentExecutions, executionId, updatedExecution) ==
    [i \in 1..Len(agentExecutions) |->
        IF agentExecutions[i].id = executionId THEN updatedExecution ELSE agentExecutions[i]]

\* A variant of holders that looks only in the list of the agent that owns
\* the current execution.
holdersOfCurrentAgent(execs, executionId) ==
    {a \in DOMAIN execs :
        /\ currentExecution # Null
        /\ a = currentExecution.agentId
        /\ executionId \in Ids(execs[a])}

\* the agents whose list holds executionId (the loop over Object.entries)
holders(execs, executionId) == {a \in DOMAIN execs : executionId \in Ids(execs[a])}

\* agentExecutions.findIndex((e) => e.id === executionId)
findIndex(agentExecutions, executionId) ==
    CHOOSE i \in 1..Len(agentExecutions) :
        /\ agentExecutions[i].id = executionId
        /\ \A j \in 1..(i - 1) : agentExecutions[j].id # executionId

\* what get() returns together with the storage the store writes to
storeState ==
    [executions |-> executions, currentExecution |-> currentExecution,
     isExecuting |-> isExecuting, localStorage |-> localStorage]

\* a variant of the body of updateExecution that derives isExecuting from the
\* updates when the execution is in no list
afterUpdateOfUnknown(st, executionId, updates, q) ==
    [st EXCEPT !.isExecuting = updates.status \in Active]

\* the body of updateExecution: the state and the storage it leaves when it
\* starts from st and its save has outcome q
afterUpdate(st, executionId, updates, q) ==
    IF holders(st.executions, executionId) = {}
    THEN st
    ELSE LET agentId == CHOOSE a \in holders(st.executions, executionId) : TRUE
             agentExecutions == st.executions[agentId]
             updatedExecution ==
                 merge(agentExecutions[findIndex(agentExecutions, executionId)], updates)
             updatedAgentExecutions ==
                 replaceById(agentExecutions, executionId, updatedExecution)
             isCurrent == st.currentExecution # Null /\ st.currentExecution.id = executionId
         IN [executions |-> Put(st.executions, agentId, updatedAgentExecutions),
             currentExecution |-> IF isCurrent THEN updatedExecution ELSE st.currentExecution,
             isExecuting |-> IF isCurrent THEN executing(updatedExecution) ELSE st.isExecuting,
             localStorage |->
                 saveExecutions(st.localStorage, agentId, updatedAgentExecutions, q)]

\* useExecutionStore.updateExecution
updateExecution(executionId, updates, q) ==
    LET st == afterUpdate(storeState, executionId, updates, q) IN
    /\ executions' = st.executions
    /\ currentExecution' = st.currentExecution
    /\ isExecuting' = st.isExecuting
    /\ localStorage' = st.localStorage
    /\ UNCHANGED <<addSeq, hydrated>>

\* updateExecution raises to its caller
updateThrows(executionId, q) == holders(executions, executionId) # {} /\ saveThrows(q)

\* useExecutionStore.setCurrentExecution
setCurrentExecution(e) ==
    /\ currentExecution' = e
    /\ isExecuting' = executing(e)
    /\ UNCHANGED <<executions, localStorage, addSeq, hydrated>>

\* useExecutionStore.loadHistory
loadHistory(agentId) ==
    /\ executions' = IF agentId \in DOMAIN executions THEN executions
                     ELSE Put(executions, agentId, loadExecutions(localStorage, agentId))
    /\ hydrated' = IF agentId \in DOMAIN executions THEN hydrated ELSE hydrated \cup {agentId}
    /\ UNCHANGED <<currentExecution, isExecuting, localStorage, addSeq>>

\* the body of clearHistory: the state and the storage it leaves when it
\* starts from st; available = StorageService.isAvailable()
afterClear(st, agentId, available) ==
    [executions |-> Remove(st.executions, agentId),
     currentExecution |->
         IF st.currentExecution # Null /\ st.currentExecution.agentId = agentId
         THEN Null ELSE st.currentExecution,
     isExecuting |-> st.isExecuting,
     localStorage |-> IF available THEN clearExecutions(st.localStorage, agentId)
                      ELSE st.localStorage]

\* useExecutionStore.clearHistory
clearHistory(agentId, available) ==
    LET st == afterClear(storeState, agentId, available) IN
    /\ executions' = st.executions
    /\ currentExecution' = st.currentExecution
    /\ localStorage' = st.localStorage
    /\ UNCHANGED <<isExecuting, addSeq, hydrated>>

\* StorageService.importData of a document of structured values: every key
\* under the namespace is written as it is.
importData(doc) ==
    /\ localStorage' = [k \in (DOMAIN localStorage) \cup (DOMAIN doc) |->
                           IF k \in DOMAIN doc THEN doc[k] ELSE localStorage[k]]
    /\ UNCHANGED <<executions, currentExecution, isExecuting, addSeq, hydrated>>

\* the executions the store holds, over all agents
AllExecutions == UNION {{executions[a][i] : i \in 1..Len(executions[a])} : a \in DOMAIN executions}

\* A partial update as the callers build it
statusUpdate(status) == [status |-> status]
completedUpdate(output) ==
    [status |-> "completed", output |-> output, completedAt |-> DateValue]
failedUpdate(code, details) ==
    [status |-> "failed", error |-> [code |-> code, details |-> details],
     completedAt |-> DateValue]

-----------------------------------------------------------------------------
(* Outputs *)

\* an ExecutionOutput: its type, its data and whether metadata.pollUrl is set
Output(type, data, pollUrl) == [type |-> type, data |-> data, pollUrl |-> pollUrl]

-----------------------------------------------------------------------------
(* Error values: lib/api/errors.ts and the errors of the other modules *)

\* no error raised
NoError == [class |-> "none"]

\* new NetworkError(message, originalError?)
NetworkError(message) ==
    [class |-> "NetworkError", base |-> TRUE, code |-> "NETWORK_ERROR", message |-> message]

\* new WebhookError(statusCode, responseBody)
WebhookError(statusCode, responseBody) ==
    [class |-> "WebhookError", base |-> TRUE, code |-> "WEBHOOK_ERROR",
     message |-> "Webhook request failed", statusCode |-> statusCode,
     responseBody |-> responseBody]

\* new ValidationError(field, constraint)
ValidationError ==
    [class |-> "ValidationError", base |-> TRUE, code |-> "VALIDATION_ERROR",
     message |-> "Validation failed"]

\* new AgentValidationError(`Agent not found: ${agentId}`), a plain Error subclass
AgentValidationError(agentId) ==
    [class |-> "AgentValidationError", base |-> FALSE, message |-> "Agent not found",
     agentId |-> agentId]

\* new QuotaExceededError(), a StorageError
QuotaExceededError ==
    [class |-> "QuotaExceededError", base |-> FALSE, code |-> "QUOTA_EXCEEDED",
     message |-> "Storage quota exceeded"]

\* the SyntaxError of JSON.parse / response.json()
SyntaxError == [class |-> "SyntaxError", base |-> FALSE, message |-> "Unexpected token"]

\* a thrown string
StringError == [class |-> "string", base |-> FALSE, message |-> "boom"]

\* parseError: the ExecutionError an error value is normalized to
parseError(error) ==
    IF error.base
    THEN [code |-> error.code, message |-> error.message]
    ELSE [code |-> "UNKNOWN_ERROR", message |-> error.message]

\* AgentRegistry.getAgentOrThrow for an id the registry does not hold
getAgentOrThrow(agentId) == AgentValidationError(agentId)

-----------------------------------------------------------------------------
(* Transport Client and forwarding proxy *)

\* What the engine does with a forwarded or direct POST: status 0 stands for a
\* connection that fails (fetch rejects), otherwise an HTTP status with the
\* kind of its body.
Refused == [status |-> 0, body |-> "none"]
EngineOutcomes ==
    {Refused}
    \cup {[status |-> 200, body |-> b] : b \in {"started", "data", "noData", "notJson"}}
    \cup {[status |-> 500, body |-> b] : b \in {"Unused Respond to Webhook", "text"}}
    \cup {[status |-> st, body |-> "text"] : st \in {400, 404, 502, 503}}

\* Response.ok
ok(res) == res.status >= 200 /\ res.status <= 299

\* the 503 answer of the proxy's catch block
proxyUnavailable == [status |-> 503, body |-> "Failed to connect to n8n"]

\* a variant of the proxy that answers every engine failure as unavailable
POSTHidingStatus(engine) ==
    IF engine = Refused \/ engine.status # 200 \/ engine.body = "notJson" THEN proxyUnavailable
    ELSE [status |-> 200, body |-> engine.body]

\* POST of app/api/webhook/[...path]/route.ts: the response the proxy gives for
\* an engine outcome
POST(engine) ==
    IF engine = Refused THEN proxyUnavailable
    ELSE IF engine.status = 500
    THEN IF engine.body = "Unused Respond to Webhook"
         THEN [status |-> 200, body |-> "data"]
         ELSE proxyUnavailable   \* the body was read at line 37; reading it again at line 83 throws
    ELSE IF engine.status = 200
    THEN IF engine.body = "notJson" THEN proxyUnavailable
         ELSE IF engine.body = "started" THEN [status |-> 200, body |-> "noData"]
         ELSE [status |-> 200, body |-> engine.body]
    ELSE [status |-> engine.status, body |-> "Webhook request failed"]

Vias == {"proxy", "direct"}

notFoundMessage == "Webhook not found. Make sure your n8n workflow is activated"

\* WebhookClient.triggerWorkflow from the settled fetch on: what it returns or
\* throws for the response it received
classify(res) ==
    IF res = Refused
    THEN [ok |-> FALSE, error |-> NetworkError("Unable to connect to the service")]
    ELSE IF ~ok(res)
    THEN IF res.status \in {502, 503}
         THEN [ok |-> FALSE, error |-> NetworkError("Service temporarily unavailable")]
         ELSE IF res.status = 404
         THEN [ok |-> FALSE, error |-> WebhookError(404, notFoundMessage)]
         ELSE [ok |-> FALSE, error |-> WebhookError(res.status, res.body)]
    ELSE IF res.body = "notJson"
    THEN [ok |-> FALSE, error |-> WebhookError(500, "Unexpected error")]
    ELSE [ok |-> TRUE, data |-> res.body]

\* WebhookClient.triggerWorkflow, through the proxy (the default) or directly
triggerWorkflow(via, engine) ==
    IF via = "proxy" THEN classify(POST(engine)) ELSE classify(engine)

\* The status a HEAD request has: 0 stands for a fetch that rejects
HeadStatuses == {0, 200, 204, 401, 404, 500, 503}

\* GET (and HEAD, which returns GET()) of app/api/health/route.ts: the status
\* of its own response for the status the engine answered its HEAD probe with
GET(engineStatus) ==
    IF engineStatus = 0
    THEN [status |-> 503, n8nAvailable |-> FALSE]
    ELSE [status |-> 200,
          n8nAvailable |-> ok([status |-> engineStatus]) \/ engineStatus = 404]

\* WebhookClient.checkServiceAvailability; healthReachable: the fetch of
\* /api/health itself is answered
checkServiceAvailability(useProxy, engineStatus, healthReachable) ==
    LET res == [status |-> IF ~useProxy THEN engineStatus
                           ELSE IF healthReachable THEN GET(engineStatus).status
                           ELSE 0]
    IN  IF res.status = 0 THEN FALSE
        ELSE ok(res) \/ res.status = 404

-----------------------------------------------------------------------------
(* Retry Policy: retryWithBackoff *)

DEFAULT_RETRY_CONFIG ==
    [maxAttempts |-> 3, delayMs |-> 1000, backoffMultiplier |-> 2,
     retryableErrors |-> {"NETWORK_ERROR", "WEBHOOK_ERROR"}]

\* The configurations retryWithBackoff is called with: the default and partial
\* overrides of it.
RetryConfigs ==
    {DEFAULT_RETRY_CONFIG,
     [DEFAULT_RETRY_CONFIG EXCEPT !.maxAttempts = 1],
     [DEFAULT_RETRY_CONFIG EXCEPT !.maxAttempts = 0],
     [DEFAULT_RETRY_CONFIG EXCEPT !.retryableErrors = {"NETWORK_ERROR"}],
     [DEFAULT_RETRY_CONFIG EXCEPT !.maxAttempts = 2, !.delayMs = 500, !.backoffMultiplier = 3]}

\* a variant of the retryability test that lets every failure be retried
isRetryableAlways(error, retryableErrors) == TRUE

\* isRetryableError
isRetryableError(error, retryableErrors) == error.code \in retryableErrors

\* a variant of the backoff step that keeps the delay
backoffConstant(currentDelay, backoffMultiplier) == currentDelay

\* currentDelay *= backoffMultiplier
backoff(currentDelay, backoffMultiplier) == currentDelay * backoffMultiplier

\* The operations fn stands for: a transport call that meets some engine
\* outcome, or an operation that throws a value of another kind.
Ops ==
    {[kind |-> "trigger", via |-> via, engine |-> engine] :
        via \in Vias, engine \in EngineOutcomes}
    \cup {[kind |-> "throw", error |-> e] : e \in {ValidationError, SyntaxError, StringError}}

\* await fn(): what the invocation returns or throws
invoke(op) ==
    IF op.kind = "trigger" THEN triggerWorkflow(op.via, op.engine)
    ELSE [ok |-> FALSE, error |-> op.error]

\* retryWithBackoff before its call
retryIdle ==
    [pc |-> "idle", config |-> DEFAULT_RETRY_CONFIG, attempt |-> 0, currentDelay |-> 0,
     calls |-> <<>>, waits |-> <<>>, raised |-> NoError]

\* retryWithBackoff is called: the destructuring of config and the first test
\* of the loop condition
RetryCall ==
    /\ retry.pc = "idle"
    /\ \E config \in RetryConfigs :
        retry' = [retry EXCEPT !.config = config, !.attempt = 1,
                               !.currentDelay = config.delayMs,
                               !.pc = IF 1 <= config.maxAttempts THEN "attempt" ELSE "raised",
                               !.raised = IF 1 <= config.maxAttempts THEN NoError ELSE Null]
    /\ UNCHANGED <<storeVars, subVars, save, call>>

\* one pass of the loop body: fn() settles
RetryAttempt ==
    /\ retry.pc = "attempt"
    /\ \E op \in Ops :
        LET o == invoke(op)
            called == [retry EXCEPT !.calls = Append(@, [op |-> op, result |-> o])]
        IN
        retry' =
            IF o.ok THEN [called EXCEPT !.pc = "returned"]
            ELSE IF ~isRetryableError(parseError(o.error), retry.config.retryableErrors)
            THEN [called EXCEPT !.pc = "raised", !.raised = o.error]
            ELSE IF retry.attempt = retry.config.maxAttempts
            THEN [called EXCEPT !.pc = "raised", !.raised = o.error]
            ELSE [called EXCEPT !.pc = "wait", !.waits = Append(@, retry.currentDelay)]
    /\ UNCHANGED <<storeVars, subVars, save, call>>

\* the delay elapsed: the backoff step, attempt++ and the loop condition
RetryWaitDone ==
    /\ retry.pc = "wait"
    /\ retry' = [retry EXCEPT
                    !.currentDelay = backoff(@, retry.config.backoffMultiplier),
                    !.attempt = @ + 1,
                    !.pc = IF retry.attempt + 1 <= retry.config.maxAttempts THEN "attempt"
                           ELSE "raised",
                    !.raised = IF retry.attempt + 1 <= retry.config.maxAttempts THEN NoError
                               ELSE parseError(retry.calls[Len(retry.calls)].result.error)]
    /\ UNCHANGED <<storeVars, subVars, save, call>>

NextRetry ==
    \/ RetryCall
    \/ RetryAttempt
    \/ RetryWaitDone

-----------------------------------------------------------------------------
(* Initial states *)

Subs == 1..MaxSubmissions

\* What an earlier session left under an agent's key: n finished executions,
\* newest first, with identifiers 101..100+n in the order of their adds.
storedHistory(agentId, n) ==
    [i \in 1..n |->
        toJSON([createExecution(100 + (n - i + 1), agentId) EXCEPT
                    !.status = "completed",
                    !.output = Output("video", "url", FALSE),
                    !.completedAt = DateValue])]

\* no function called yet
noCall == [fn |-> "none"]

\* no saveExecutions call being followed
saveIdle ==
    [pc |-> "idle", agentId |-> "", list |-> <<>>, ls |-> EmptyMap, attempts |-> <<>>,
     results |-> <<>>, raised |-> NoError]

InitSubs ==
    /\ pc = [s \in Subs |-> "idle"]
    /\ subAgent = [s \in Subs |-> ""]
    /\ initialExecution = [s \in Subs |-> 0]
    /\ execution = [s \in Subs |-> Null]
    /\ response = [s \in Subs |-> "none"]
    /\ pollRet = [s \in Subs |-> Null]
    /\ pollInterval = [s \in Subs |-> FALSE]
    /\ pollTimeout = [s \in Subs |-> FALSE]
    /\ inFlight = [s \in Subs |-> 0]
    /\ running = 0
    /\ thrown = [s \in Subs |-> NoError]
    /\ triggerCalls = [s \in Subs |-> 0]
    /\ retry = retryIdle
    /\ save = saveIdle
    /\ call = noCall

\* The store as constructed (execution-store.ts:37-39) over a storage that
\* holds n executions of the VEO3 agent, n drawn from lens.
InitStore(lens) ==
    /\ executions = EmptyMap
    /\ currentExecution = Null
    /\ isExecuting = FALSE
    /\ nextId = 1
    /\ storageFaults = 0
    /\ hydrated = {}
    /\ \E n \in lens :
        /\ localStorage = IF n = 0 THEN EmptyMap
                          ELSE Put(EmptyMap, getExecutionKey(VEO3_AGENT),
                                   storedHistory(VEO3_AGENT, n))
        /\ addSeq = [id \in 101..(100 + n) |-> id - 100]

-----------------------------------------------------------------------------
(* The State Container and the Persistence Layer driven directly *)

StoredLens == {MAX_EXECUTIONS_PER_AGENT}

\* The agents the direct calls are made for.
StoreAgents == {VEO3_AGENT, PLAIN_AGENT}

\* The document handed to importData: an array one longer than the cap under
\* the VEO3 agent's key.
importedHistory(agentId, base, n) ==
    [i \in 1..n |->
        toJSON([createExecution(base + (n - i + 1), agentId) EXCEPT
                    !.status = "completed",
                    !.output = Output("video", "url", FALSE),
                    !.completedAt = DateValue])]
ImportDocs ==
    {Put(EmptyMap, getExecutionKey(VEO3_AGENT),
         importedHistory(VEO3_AGENT, 200, MAX_EXECUTIONS_PER_AGENT + 1))}

\* the agents freeUpSpace would truncate
overLimit(ls) ==
    {a \in getAgentIdsWithExecutions(ls) : Len(ls[getExecutionKey(a)]) > FREE_UP_LIMIT}

\* Outcomes of a write in the current state: the first setItem can fail while
\* the environment's budget of failures lasts.
Outcomes ==
    {q \in SaveOutcomes(SUBSET overLimit(localStorage)) :
        q.kind # "ok" => storageFaults < MaxStorageFaults}

\* the environment's count after a write with outcome q
countWrite(q) == storageFaults' = IF q.kind = "ok" THEN storageFaults ELSE storageFaults + 1

\* Identifiers a direct update is made for: those generated so far and the
\* next one (held by no list).
UpdateTargets == 1..nextId

Updates ==
    {statusUpdate("processing"),
     completedUpdate(Output("video", "url", FALSE))}

InitSt == InitSubs /\ InitStore(StoredLens)

StoreAdd ==
    /\ nextId <= MaxAdds
    /\ \E a \in StoreAgents, q \in Outcomes :
           addExecution(createExecution(nextId, a), q) /\ countWrite(q)
    /\ nextId' = nextId + 1
    /\ UNCHANGED subVars
    /\ UNCHANGED libVars

StoreUpdate ==
    /\ \E id \in UpdateTargets, u \in Updates, q \in Outcomes :
           /\ updateExecution(id, u, q)
           /\ IF holders(executions, id) = {} THEN UNCHANGED storageFaults ELSE countWrite(q)
    /\ UNCHANGED nextId
    /\ UNCHANGED subVars
    /\ UNCHANGED libVars

StoreSetCurrent ==
    /\ \E e \in {Null} \cup {x \in AllExecutions : x.id \in UpdateTargets} :
           setCurrentExecution(e)
    /\ UNCHANGED <<nextId, storageFaults>>
    /\ UNCHANGED subVars
    /\ UNCHANGED libVars

StoreLoadHistory ==
    /\ \E a \in StoreAgents : loadHistory(a)
    /\ UNCHANGED <<nextId, storageFaults>>
    /\ UNCHANGED subVars
    /\ UNCHANGED libVars

StoreClearHistory ==
    /\ \E a \in StoreAgents, available \in BOOLEAN :
           /\ ~available => storageFaults < MaxStorageFaults
           /\ clearHistory(a, available)
           /\ storageFaults' = IF available THEN storageFaults ELSE storageFaults + 1
    /\ UNCHANGED nextId
    /\ UNCHANGED subVars
    /\ UNCHANGED libVars

StoreImport ==
    /\ \E doc \in ImportDocs : importData(doc)
    /\ UNCHANGED <<nextId, storageFaults>>
    /\ UNCHANGED subVars
    /\ UNCHANGED libVars

NextSt ==
    \/ StoreAdd
    \/ StoreUpdate
    \/ StoreSetCurrent
    \/ StoreLoadHistory
    \/ StoreClearHistory
    \/ StoreImport

SpecStore == InitSt /\ [][NextSt]_vars

-----------------------------------------------------------------------------
(* Stored strings and JSON values; the read path of StorageService *)

\* JSON values
JNull == [t |-> "null"]
JNumber == [t |-> "number", v |-> "5"]
JString(str) == [t |-> "string", v |-> str]
JObject(name) == [t |-> "object", v |-> name]
JArray(items) == [t |-> "array", items |-> items]

\* the JSON of one stored Execution, of the preferences, of another object
JExecution == JObject("execution")
JPreferences == JObject("preferences")
JOther == JObject("other")
EmptyObject == JObject("{}")

JValues ==
    {JNull, JNumber, JString("abc"), JString("5"), JPreferences, JOther, EmptyObject,
     JArray(<<>>), JArray(<<JExecution>>), JArray(<<JExecution, JExecution>>),
     JArray(<<JNumber>>), JArray(<<JNull>>), JArray(<<JExecution, JOther>>)}

\* What localStorage.getItem returns: null for a missing key, or a string,
\* which is the empty string, a text that is not JSON, or the JSON text of a
\* value (texts of the same value are not told apart).
Missing == [k |-> "missing"]
RawText(str) == [k |-> "raw", s |-> str]
JsonText(v) == [k |-> "json", v |-> v]
EmptyText == RawText("")
StoredTexts == {EmptyText, RawText("abc"), RawText("{bad")} \cup {JsonText(v) : v \in JValues}

\* !data
falsy(data) == data = Missing \/ data = EmptyText

\* JSON.parse(text) throws a SyntaxError
parseThrowsOn(text) == text.k = "raw"

\* the map callback of loadExecutions applied to one element
revived(item) == [t |-> "object", v |-> "revived", of |-> item]

\* a variant of loadExecutionsText that treats every array as a valid history
loadExecutionsTextUnguarded(data, available) ==
    IF ~available \/ falsy(data) \/ parseThrowsOn(data) \/ data.v.t # "array"
    THEN [raised |-> FALSE, value |-> <<>>]
    ELSE [raised |-> \E i \in 1..Len(data.v.items) : data.v.items[i] = JNull,
          value |-> [i \in 1..Len(data.v.items) |-> revived(data.v.items[i])]]

\* StorageService.loadExecutions on what getItem returns: parsed.map throws a
\* TypeError for a value that is no array, the callback throws one for a null
\* element; the catch returns []
loadExecutionsText(data, available) ==
    IF ~available \/ falsy(data) \/ parseThrowsOn(data) THEN [raised |-> FALSE, value |-> <<>>]
    ELSE IF data.v.t # "array" THEN [raised |-> FALSE, value |-> <<>>]
    ELSE IF \E i \in 1..Len(data.v.items) : data.v.items[i] = JNull
    THEN [raised |-> FALSE, value |-> <<>>]
    ELSE [raised |-> FALSE, value |-> [i \in 1..Len(data.v.items) |-> revived(data.v.items[i])]]

\* StorageService.loadPreferences on what getItem returns
loadPreferences(data, available) ==
    IF ~available \/ falsy(data) \/ parseThrowsOn(data)
    THEN [raised |-> FALSE, value |-> EmptyObject]
    ELSE [raised |-> FALSE, value |-> data.v]

CallLoadExecutions ==
    /\ \E data \in StoredTexts \cup {Missing}, available \in BOOLEAN :
        call' = [fn |-> "loadExecutions", data |-> data, available |-> available,
                 result |-> loadExecutionsText(data, available)]
    /\ UNCHANGED <<storeVars, subVars, retry, save>>

CallLoadPreferences ==
    /\ \E data \in StoredTexts \cup {Missing}, available \in BOOLEAN :
        call' = [fn |-> "loadPreferences", data |-> data, available |-> available,
                 result |-> loadPreferences(data, available)]
    /\ UNCHANGED <<storeVars, subVars, retry, save>>

\* Keys of localStorage: one under the namespace 'ai-agent-platform:', one of
\* another application
NsKey == "ai-agent-platform:preferences"
OutKey == "other-app:state"
startsWithPrefix(key) == key = NsKey

\* the text localStorage.setItem(key, str) stores for a string value: its
\* characters, which are the JSON text of a number for "5" and no JSON otherwise
setItemText(str) == IF str = "5" THEN JsonText(JNumber) ELSE RawText(str)

\* StorageService.exportData: the parsed document that the returned JSON text
\* holds (every value comes from JSON.parse or is a string, so
\* JSON.stringify(data, null, 2) loses nothing of it)
exportData(ls, available) ==
    IF ~available THEN EmptyMap
    ELSE [key \in {k \in DOMAIN ls : startsWithPrefix(k) /\ ~falsy(ls[k])} |->
             IF parseThrowsOn(ls[key]) THEN JString(ls[key].s) ELSE ls[key].v]

\* StorageService.importData of the JSON text of doc into the storage ls; what
\* is stored is typeof value === 'string' ? value : JSON.stringify(value);
\* quota: setItem throws
importDataJson(doc, ls, available, quota) ==
    IF ~available THEN [raised |-> "STORAGE_UNAVAILABLE", ls |-> ls]
    ELSE IF quota /\ (\E k \in DOMAIN doc : startsWithPrefix(k))
    THEN [raised |-> "IMPORT_ERROR", ls |-> ls]
    ELSE [raised |-> "none",
          ls |-> [k \in (DOMAIN ls) \cup {x \in DOMAIN doc : startsWithPrefix(x)} |->
                     IF k \in DOMAIN doc /\ startsWithPrefix(k)
                     THEN IF doc[k].t = "string" THEN setItemText(doc[k].v) ELSE JsonText(doc[k])
                     ELSE ls[k]]]

\* exportData of a storage holding nsv under NsKey and outv under OutKey, then
\* importData of the exported text into an emptied storage; foreign: an entry under OutKey that the imported document carries
CallExportImport ==
    /\ \E nsv \in StoredTexts \cup {Missing}, outv \in {Missing, RawText("abc")},
          foreign \in {Missing, JsonText(JNumber)}, available \in BOOLEAN, quota \in BOOLEAN :
        LET store == [k \in (IF nsv = Missing THEN {} ELSE {NsKey})
                                \cup (IF outv = Missing THEN {} ELSE {OutKey}) |->
                         IF k = NsKey THEN nsv ELSE outv]
            exported == exportData(store, available)
            doc == IF foreign = Missing THEN exported ELSE Put(exported, OutKey, foreign.v)
        IN  call' = [fn |-> "exportImport", store |-> store, doc |-> doc,
                     available |-> available,
                     result |-> importDataJson(doc, EmptyMap, available, quota)]
    /\ UNCHANGED <<storeVars, subVars, retry, save>>

\* The data field of the response triggerWorkflow returned: falsy (absent,
\* null, ''), a URL string, or an object with its url, videoUrl, duration and
\* metadata.duration ("" and "undefined" for a property that is not there)
ResponseData ==
    [kind : {"falsy", "string"}, url : {"https://x/vid.mp4"}, videoUrl : {""},
     duration : {"undefined"}, metadataDuration : {"undefined"}]
    \cup [kind : {"object"}, url : {"", "https://x/vid.mp4"}, videoUrl : {"", "https://x/veo.mp4"},
          duration : {"undefined", "5"}, metadataDuration : {"undefined", "9"}]

\* a variant of parseOutput in which data.metadata is spread last
parseOutputMetadataLast(data, outputType) ==
    [type |-> outputType, data |-> data.url,
     duration |-> IF data.metadataDuration # "undefined" THEN data.metadataDuration
                  ELSE data.duration]

\* ExecutionService.parseOutput(data, outputType) for truthy data: the type,
\* the data and the metadata.duration of the output ("object": the data
\* object itself; "none": no metadata)
parseOutputData(data, outputType) ==
    IF outputType \in {"video", "image"}
    THEN IF data.kind = "string"
         THEN [type |-> outputType, data |-> data.url, duration |-> "none"]
         ELSE IF data.url # ""
         THEN [type |-> outputType, data |-> data.url, duration |-> data.duration]
         ELSE IF data.videoUrl # ""
         THEN [type |-> outputType, data |-> data.videoUrl, duration |-> data.duration]
         ELSE [type |-> outputType, data |-> "object", duration |-> "none"]
    ELSE IF outputType = "text"
    THEN [type |-> outputType,
          data |-> IF data.kind = "string" THEN data.url ELSE "JSON.stringify(object)",
          duration |-> "none"]
    ELSE [type |-> outputType, data |-> "object", duration |-> "none"]

\* executeAgent from the returned response on (lines 58-104): status and
\* output of the execution, whether pollForResult was called, whether the
\* catch block ran (JSON.parse of a URL string for output type json)
executeAgentFrom(data, outputType, polling) ==
    IF data.kind # "falsy"
    THEN IF outputType = "json" /\ data.kind = "string"
         THEN [status |-> "failed", polled |-> FALSE, raised |-> TRUE,
               output |-> [type |-> "none", data |-> "undefined", duration |-> "none"]]
         ELSE [status |-> "completed", polled |-> FALSE, raised |-> FALSE,
               output |-> parseOutputData(data, outputType)]
    ELSE IF polling
    THEN [status |-> "processing", polled |-> TRUE, raised |-> FALSE,
          output |-> [type |-> "video", data |-> "null", duration |-> "none"]]
    ELSE [status |-> "completed", polled |-> FALSE, raised |-> FALSE,
          output |-> [type |-> "video", data |-> "sample", duration |-> "none"]]

\* status: the status field of the response, which executeAgent does not read
CallExecuteAgentFrom ==
    /\ \E data \in ResponseData, outputType \in {"video", "image", "text", "json"},
          polling \in BOOLEAN, status \in {"processing", "completed", "failed"} :
        call' = [fn |-> "executeAgent", data |-> data, outputType |-> outputType,
                 polling |-> polling, status |-> status,
                 result |-> executeAgentFrom(data, outputType, polling)]
    /\ UNCHANGED <<storeVars, subVars, retry, save>>

\* The ExecutionInput values formatPayload is given: prompt ("undefined" when
\* absent) and parameters, a map of names to values (the empty map stands for
\* absent parameters and for {}: Object.assign adds nothing in either case)
PayloadInputs ==
    [prompt : {"undefined", "", "a red fox"},
     parameters : UNION {[keys -> {"9:16", "a blue cat"}] :
                            keys \in SUBSET {"aspectRatio", "prompt"}}]

\* a variant of formatPayload in which the fields set from the schema are
\* kept when a parameter has the same name
formatPayloadSchemaFirst(schemaType, input) ==
    [k \in {"prompt"} \cup DOMAIN input.parameters |->
        IF k = "prompt" THEN (IF input.prompt = "undefined" THEN "" ELSE input.prompt)
        ELSE input.parameters[k]]

\* ExecutionService.formatPayload for an agent whose inputSchema has the given
\* type and, for a form, the one field aspectRatio with defaultValue "16:9"
formatPayload(schemaType, input) ==
    LET truthy == input.prompt \notin {"undefined", ""}
        params == input.parameters
        fromSchema ==
            IF schemaType = "text"
            THEN [k \in {"prompt"} |-> IF truthy THEN input.prompt ELSE ""]
            ELSE IF schemaType = "form"
            THEN [k \in {"aspectRatio"} \cup (IF truthy THEN {"prompt"} ELSE {}) |->
                     IF k = "prompt" THEN input.prompt
                     ELSE IF k \in DOMAIN params THEN params[k] ELSE "16:9"]
            ELSE [k \in {"file"} \cup (IF truthy THEN {"prompt"} ELSE {}) |->
                     IF k = "prompt" THEN input.prompt ELSE "undefined"]
    IN  [k \in (DOMAIN fromSchema) \cup (DOMAIN params) |->
            IF k \in DOMAIN params THEN params[k] ELSE fromSchema[k]]

CallFormatPayload ==
    /\ \E schemaType \in {"text", "form", "file"}, input \in PayloadInputs :
        call' = [fn |-> "formatPayload", schemaType |-> schemaType, input |-> input,
                 result |-> [raised |-> FALSE, value |-> formatPayload(schemaType, input)]]
    /\ UNCHANGED <<storeVars, subVars, retry, save>>

\* What the engine lists under /api/v1/executions, newest first: for each job
\* the submission that started it (0: a job from before the first
\* submission), whether it has finished, whether its workflow name contains
\* 'veo3'
EngineJobs == [owner : {0} \cup Subs, finished : BOOLEAN, veo3 : BOOLEAN]
EngineExecutions == {<<>>} \cup {<<j>> : j \in EngineJobs} \cup {<<j, k>> : j, k \in EngineJobs}

\* GET of app/api/poll-execution/route.ts: the status field of its answer
\* ("none": an answer without one); engineOk: the engine's API answered 2xx
pollExecution(jobs, engineOk) ==
    LET matching == SelectSeq(jobs, LAMBDA j : j.veo3) IN
    IF ~engineOk \/ matching = <<>> THEN [status |-> "none"]
    ELSE [status |-> IF matching[1].finished THEN "completed" ELSE "processing"]

\* the setInterval callback of handleSubmit on the answer it fetched: the
\* status it passes to updateExecution(initialExecution.id, ...), "none" when
\* it makes no update
pollCallback(pollResult) ==
    IF pollResult.status = "completed" THEN "completed"
    ELSE IF pollResult.status = "failed" THEN "failed"
    ELSE "none"

\* one poll of submission s, both submissions being in flight
CallPoll ==
    /\ \E s \in Subs, jobs \in EngineExecutions, engineOk \in BOOLEAN :
        call' = [fn |-> "poll", s |-> s, jobs |-> jobs, engineOk |-> engineOk,
                 result |-> [raised |-> FALSE,
                             value |-> pollCallback(pollExecution(jobs, engineOk))]]
    /\ UNCHANGED <<storeVars, subVars, retry, save>>

\* freeUpSpace followed agent by agent: the agents whose truncating setItem
\* succeeds, when the agents are visited in the given order and setItem
\* throws for the agents in fails; the first throw ends the forEach in the
\* catch around it
truncatedBy(ls, order, fails) ==
    {order[i] : i \in {k \in 1..Len(order) :
        /\ order[k] \in overLimit(ls) \ fails
        /\ \A j \in 1..(k - 1) : order[j] \notin overLimit(ls) \cap fails}}

\* StorageService.freeUpSpace over storages in which each agent has no
\* record, a short one or one over the limit
CallFreeUpSpace ==
    /\ \E lens \in [StoreAgents -> {0, 3, FREE_UP_LIMIT + 2}],
          order \in {<<VEO3_AGENT, PLAIN_AGENT>>, <<PLAIN_AGENT, VEO3_AGENT>>},
          fails \in SUBSET StoreAgents :
        LET ls == [k \in {getExecutionKey(a) : a \in {x \in StoreAgents : lens[x] > 0}} |->
                      storedHistory(k[2], lens[k[2]])]
            visited == SelectSeq(order, LAMBDA a : a \in getAgentIdsWithExecutions(ls))
        IN  call' = [fn |-> "freeUpSpace", ls |-> ls, order |-> visited, fails |-> fails,
                     result |-> [raised |-> FALSE,
                                 value |-> freeUpSpace(ls, truncatedBy(ls, visited, fails))]]
    /\ UNCHANGED <<storeVars, subVars, retry, save>>

CallCheckServiceAvailability ==
    /\ \E useProxy \in BOOLEAN, engineStatus \in HeadStatuses, healthReachable \in BOOLEAN :
        call' = [fn |-> "checkServiceAvailability", useProxy |-> useProxy,
                 engineStatus |-> engineStatus, healthReachable |-> healthReachable,
                 result |-> [raised |-> FALSE,
                             value |-> checkServiceAvailability(useProxy, engineStatus,
                                                                healthReachable)]]
    /\ UNCHANGED <<storeVars, subVars, retry, save>>

NextCalls ==
    \/ CallLoadExecutions
    \/ CallLoadPreferences
    \/ CallExportImport
    \/ CallCheckServiceAvailability
    \/ CallExecuteAgentFrom
    \/ CallFormatPayload
    \/ CallPoll
    \/ CallFreeUpSpace

-----------------------------------------------------------------------------
(* StorageService.saveExecutions followed setItem by setItem *)

\* Lengths of the list handed to saveExecutions.
SaveLens == {3, QUOTA_FIRST_REDUCTION, QUOTA_FIRST_REDUCTION + 1, 40}

\* Length of the array another agent has in the storage, where it has one.
OtherStoredLen == FREE_UP_LIMIT + 2

otherAgent(agentId) == IF agentId = VEO3_AGENT THEN PLAIN_AGENT ELSE VEO3_AGENT

\* a variant of reduced that keeps the entries at the end of the list
reducedFromEnd(list, n) == stringify(SubSeq(list, Len(list) - Min(n, Len(list)) + 1, Len(list)))

\* JSON.stringify(executions.slice(0, n))
reduced(list, n) == stringify(slice(list, n))

\* saveExecutions(agentId, executions) is called; isAvailable() is tested
SaveExecutionsCall ==
    /\ save.pc = "idle"
    /\ \E agentId \in StoreAgents, n \in SaveLens, own, other, available \in BOOLEAN :
        LET list == [i \in 1..n |-> revive(storedHistory(agentId, n)[i])]
            ownRecord == IF own THEN Put(EmptyMap, getExecutionKey(agentId),
                                         stringify(SubSeq(list, 2, n)))
                         ELSE EmptyMap
            ls == IF other
                  THEN Put(ownRecord, getExecutionKey(otherAgent(agentId)),
                           storedHistory(otherAgent(agentId), OtherStoredLen))
                  ELSE ownRecord
        IN save' = [saveIdle EXCEPT !.pc = IF available THEN "full" ELSE "returned",
                                    !.agentId = agentId, !.list = list, !.ls = ls]
    /\ UNCHANGED <<storeVars, subVars, retry, call>>

\* localStorage.setItem(key, JSON.stringify(limitedExecutions)): it succeeds,
\* throws QuotaExceededError, or throws another error
SaveSetItemFull ==
    /\ save.pc = "full"
    /\ \E r \in {"ok", "quota", "otherError"} :
        save' = [save EXCEPT
                    !.attempts = Append(@, "full"),
                    !.results = Append(@, r),
                    !.ls = IF r = "ok"
                           THEN Put(@, getExecutionKey(save.agentId),
                                    reduced(save.list, MAX_EXECUTIONS_PER_AGENT))
                           ELSE @,
                    !.pc = IF r = "quota" THEN "ten" ELSE "returned"]
    /\ UNCHANGED <<storeVars, subVars, retry, call>>

\* handleQuotaExceeded: the setItem of the QUOTA_FIRST_REDUCTION most recent
SaveSetItemTen ==
    /\ save.pc = "ten"
    /\ \E r \in {"ok", "quota", "otherError"} :
        LET succeeds == r = "ok" IN
        save' = [save EXCEPT
                    !.attempts = Append(@, "ten"),
                    !.results = Append(@, r),
                    !.ls = IF succeeds
                           THEN Put(@, getExecutionKey(save.agentId),
                                    reduced(save.list, QUOTA_FIRST_REDUCTION))
                           ELSE @,
                    !.pc = IF succeeds THEN "returned" ELSE "freeUp"]
    /\ UNCHANGED <<storeVars, subVars, retry, call>>

\* handleQuotaExceeded: this.freeUpSpace() in the catch of the second setItem
SaveFreeUpSpace ==
    /\ save.pc = "freeUp"
    /\ \E written \in SUBSET overLimit(save.ls) :
        save' = [save EXCEPT
                    !.attempts = Append(@, "freeUp"),
                    !.results = Append(@, "done"),
                    !.ls = freeUpSpace(@, written),
                    !.pc = "five"]
    /\ UNCHANGED <<storeVars, subVars, retry, call>>

\* a variant of the final attempt that logs its failure and returns
SaveSetItemFiveSwallowing ==
    /\ save.pc = "five"
    /\ \E r \in {"ok", "quota", "otherError"} :
        save' = [save EXCEPT
                    !.attempts = Append(@, "five"),
                    !.results = Append(@, r),
                    !.ls = IF r = "ok"
                           THEN Put(@, getExecutionKey(save.agentId),
                                    reduced(save.list, QUOTA_FINAL_REDUCTION))
                           ELSE @,
                    !.pc = "returned"]
    /\ UNCHANGED <<storeVars, subVars, retry, call>>

\* handleQuotaExceeded: the final setItem of the QUOTA_FINAL_REDUCTION most
\* recent; its failure throws new QuotaExceededError()
SaveSetItemFive ==
    /\ save.pc = "five"
    /\ \E r \in {"ok", "quota", "otherError"} :
        LET succeeds == r = "ok" IN
        save' = [save EXCEPT
                    !.attempts = Append(@, "five"),
                    !.results = Append(@, r),
                    !.ls = IF succeeds
                           THEN Put(@, getExecutionKey(save.agentId),
                                    reduced(save.list, QUOTA_FINAL_REDUCTION))
                           ELSE @,
                    !.pc = IF succeeds THEN "returned" ELSE "raised",
                    !.raised = IF succeeds THEN NoError ELSE QuotaExceededError]
    /\ UNCHANGED <<storeVars, subVars, retry, call>>

NextSave ==
    \/ SaveExecutionsCall
    \/ SaveSetItemFull
    \/ SaveSetItemTen
    \/ SaveFreeUpSpace
    \/ SaveSetItemFive

-----------------------------------------------------------------------------
(* Execution Orchestrator: ExecutionService *)

\* What the transport call of one executeAgent can end with: a response with
\* data, a response whose data is a string that is not JSON (a case of its own
\* only where the output type is json), a response without data, a thrown
\* NetworkError, a thrown WebhookError.
TransportResults == {"data", "badData", "noData", "NetworkError", "WebhookError"}

\* the error value triggerWorkflow throws for a failing result
transportError(r) ==
    IF r = "NetworkError" THEN triggerWorkflow("proxy", Refused).error
    ELSE triggerWorkflow("proxy", [status |-> 404, body |-> "text"]).error

\* parseOutput throws: JSON.parse of a string that is not JSON, for output type json
parseThrows(outputType, r) == outputType = "json" /\ r = "badData"

\* ExecutionService.parseOutput for a video agent whose response data is a URL
\* string or an object with url
parseOutput(outputType) == Output(outputType, "url", FALSE)

\* the output executeAgent makes up when there is no data and no polling
assumedOutput == Output("video", "url", FALSE)

\* ExecutionService.pollForResult without initial data: the result after the
\* first sleep when the loop is entered, the timeout result when the elapsed
\* time has already reached maxTime at the first test of the loop condition.
pollForResult(expired) ==
    IF expired
    THEN [status |-> "failed", output |-> Undefined,
          error |-> [code |-> "EXECUTION_TIMEOUT", details |-> "none"]]
    ELSE [status |-> "processing", output |-> Output("video", "null", TRUE),
          error |-> Undefined]

\* executeAgent, lines 75-79 and 93: the execution adopts the poll result
adoptPollResult(e, result) ==
    [e EXCEPT !.output = result.output,
              !.status = result.status,
              !.error = IF result.error # Undefined THEN result.error ELSE @,
              !.completedAt = DateValue]

\* executeAgent, lines 62-66 and 80-93: the execution after a response that
\* needs no polling
immediateResult(e, agent, r) ==
    IF r \in {"data", "badData"}
    THEN [e EXCEPT !.output = parseOutput(agent.outputType), !.status = "completed",
                   !.completedAt = DateValue]
    ELSE [e EXCEPT !.output = assumedOutput, !.status = "completed",
                   !.completedAt = DateValue]

\* a variant of the catch block that leaves completedAt as it was
executionFailedWithoutCompletedAt(e, error) ==
    [e EXCEPT !.status = "failed",
              !.error = [code |-> "EXECUTION_FAILED", details |-> error]]

\* executeAgent, the catch block
executionFailed(e, error) ==
    [e EXCEPT !.status = "failed",
              !.error = [code |-> "EXECUTION_FAILED", details |-> error],
              !.completedAt = DateValue]

\* agent.settings?.maxExecutionTime && agent.settings.maxExecutionTime > 0
pollingConfigured(agent) == agent.maxExecutionTime > 0

-----------------------------------------------------------------------------
(* ChatContainer.handleSubmit and its timers *)

\* handleSubmit up to addExecution(initialExecution); submissions are numbered
\* in the order they are made
Submit(s) ==
    /\ running = 0
    /\ pc[s] = "idle"
    /\ \A t \in 1..(s - 1) : pc[t] # "idle"
    /\ \E a \in AgentIds, q \in Outcomes :
        /\ addExecution(createExecution(nextId, a), q)
        /\ countWrite(q)
        /\ subAgent' = [subAgent EXCEPT ![s] = a]
        /\ pc' = [pc EXCEPT ![s] = IF saveThrows(q) THEN "rejected" ELSE "added"]
        /\ running' = IF saveThrows(q) THEN 0 ELSE s
    /\ initialExecution' = [initialExecution EXCEPT ![s] = nextId]
    /\ nextId' = nextId + 1
    /\ UNCHANGED <<execution, response, pollRet, pollInterval, pollTimeout, inFlight, thrown,
                   triggerCalls>>
    /\ UNCHANGED libVars

\* updateExecution(id, {status: 'processing'}) and executeAgent up to the
\* await of the transport call
Dispatch(s) ==
    /\ running = s
    /\ pc[s] = "added"
    /\ \E q \in Outcomes :
        /\ updateExecution(initialExecution[s], statusUpdate("processing"), q)
        /\ IF holders(executions, initialExecution[s]) = {} THEN UNCHANGED storageFaults
           ELSE countWrite(q)
        /\ IF updateThrows(initialExecution[s], q) \/ subAgent[s] \notin DOMAIN AGENTS
           THEN /\ pc' = [pc EXCEPT ![s] = "catchOther"]
                /\ thrown' = [thrown EXCEPT ![s] =
                                 IF updateThrows(initialExecution[s], q) THEN QuotaExceededError
                                 ELSE getAgentOrThrow(subAgent[s])]
                /\ UNCHANGED <<execution, nextId, running, triggerCalls>>
           ELSE /\ pc' = [pc EXCEPT ![s] = "trigger"]
                /\ execution' = [execution EXCEPT ![s] = createExecution(nextId, subAgent[s])]
                /\ triggerCalls' = [triggerCalls EXCEPT ![s] = @ + 1]
                /\ nextId' = nextId + 1
                /\ running' = 0
                /\ UNCHANGED thrown
    /\ UNCHANGED <<subAgent, initialExecution, response, pollRet, pollInterval, pollTimeout,
                   inFlight>>
    /\ UNCHANGED libVars

\* a variant of the catch that calls the transport again while the agent's
\* settings.retryAttempts allows it
rethrowAfterRetries(s, error) ==
    IF triggerCalls[s] < AGENTS[subAgent[s]].retryAttempts
    THEN /\ triggerCalls' = [triggerCalls EXCEPT ![s] = @ + 1]
         /\ UNCHANGED <<pc, running>>
    ELSE /\ pc' = [pc EXCEPT ![s] = IF error.class = "NetworkError"
                                    THEN "catchNetwork" ELSE "catchOther"]
         /\ running' = s
         /\ UNCHANGED triggerCalls

\* throw error at the end of the catch of executeAgent: control passes to the
\* catch of handleSubmit, which tests instanceof NetworkError
rethrow(s, error) ==
    /\ pc' = [pc EXCEPT ![s] = IF error.class = "NetworkError"
                               THEN "catchNetwork" ELSE "catchOther"]
    /\ running' = s
    /\ UNCHANGED triggerCalls

\* the transport call settles; executeAgent runs on to its return, its throw
\* or the sleep of pollForResult
TransportReturn(s) ==
    /\ running = 0
    /\ pc[s] = "trigger"
    /\ \E r \in TransportResults, expired \in BOOLEAN :
        /\ r = "badData" => AGENTS[subAgent[s]].outputType = "json"
        /\ response' = [response EXCEPT ![s] = r]
        /\ LET agent == AGENTS[subAgent[s]]
               processing == [execution[s] EXCEPT !.status = "processing"]
           IN
           IF r \in {"NetworkError", "WebhookError"}
           THEN /\ ~expired
                /\ execution' = [execution EXCEPT ![s] = executionFailed(@, transportError(r))]
                /\ thrown' = [thrown EXCEPT ![s] = transportError(r)]
                /\ rethrow(s, transportError(r))
                /\ UNCHANGED pollRet
           ELSE IF parseThrows(agent.outputType, r)
           THEN /\ ~expired
                /\ execution' = [execution EXCEPT ![s] = executionFailed(processing, SyntaxError)]
                /\ thrown' = [thrown EXCEPT ![s] = SyntaxError]
                /\ pc' = [pc EXCEPT ![s] = "catchOther"]
                /\ running' = s
                /\ UNCHANGED <<pollRet, triggerCalls>>
           ELSE IF r = "noData" /\ pollingConfigured(agent)
           THEN IF expired
                THEN /\ pollRet' = [pollRet EXCEPT ![s] = pollForResult(TRUE)]
                     /\ execution' = [execution EXCEPT ![s] =
                                         adoptPollResult(processing, pollForResult(TRUE))]
                     /\ pc' = [pc EXCEPT ![s] = "returned"]
                     /\ running' = s
                     /\ UNCHANGED <<thrown, triggerCalls>>
                ELSE /\ execution' = [execution EXCEPT ![s] = processing]
                     /\ pc' = [pc EXCEPT ![s] = "sleep"]
                     /\ UNCHANGED <<pollRet, running, thrown, triggerCalls>>
           ELSE /\ ~expired
                /\ execution' = [execution EXCEPT ![s] = immediateResult(processing, agent, r)]
                /\ pc' = [pc EXCEPT ![s] = "returned"]
                /\ running' = s
                /\ UNCHANGED <<pollRet, thrown, triggerCalls>>
    /\ UNCHANGED <<executions, currentExecution, isExecuting, localStorage, nextId, addSeq, hydrated,
                   storageFaults, subAgent, initialExecution, pollInterval,
                   pollTimeout, inFlight>>
    /\ UNCHANGED libVars

\* the sleep of pollForResult ends: pollForResult returns and executeAgent
\* returns with it
SleepDone(s) ==
    /\ running = 0
    /\ pc[s] = "sleep"
    /\ pollRet' = [pollRet EXCEPT ![s] = pollForResult(FALSE)]
    /\ execution' = [execution EXCEPT ![s] = adoptPollResult(@, pollForResult(FALSE))]
    /\ pc' = [pc EXCEPT ![s] = "returned"]
    /\ running' = s
    /\ UNCHANGED <<executions, currentExecution, isExecuting, localStorage, nextId, addSeq, hydrated,
                   storageFaults, subAgent, initialExecution, thrown, triggerCalls, response, pollInterval, pollTimeout,
                   inFlight>>
    /\ UNCHANGED libVars

\* execution.status === 'processing' && execution.output?.metadata?.pollUrl
startsPolling(e) == e.status = "processing" /\ e.output # Undefined /\ e.output.pollUrl

\* the update handleSubmit makes with the result of executeAgent
resultUpdate(e) ==
    [status |-> e.status, output |-> e.output, completedAt |-> e.completedAt,
     error |-> e.error]

\* handleSubmit after executeAgent returned: the timers are scheduled, or the
\* final result is recorded
HandleResult(s) ==
    /\ running = s
    /\ pc[s] = "returned"
    /\ IF startsPolling(execution[s])
       THEN /\ pollInterval' = [pollInterval EXCEPT ![s] = TRUE]
            /\ pollTimeout' = [pollTimeout EXCEPT ![s] = TRUE]
            /\ pc' = [pc EXCEPT ![s] = "done"]
            /\ running' = 0
            /\ UNCHANGED <<executions, currentExecution, isExecuting, localStorage, addSeq, hydrated,
                           storageFaults, thrown>>
       ELSE /\ \E q \in Outcomes :
                /\ updateExecution(initialExecution[s], resultUpdate(execution[s]), q)
                /\ IF holders(executions, initialExecution[s]) = {}
                   THEN UNCHANGED storageFaults ELSE countWrite(q)
                /\ pc' = [pc EXCEPT ![s] = IF updateThrows(initialExecution[s], q)
                                           THEN "catchOther" ELSE "done"]
                /\ thrown' = [thrown EXCEPT ![s] = IF updateThrows(initialExecution[s], q)
                                                   THEN QuotaExceededError ELSE @]
                /\ running' = IF updateThrows(initialExecution[s], q) THEN s ELSE 0
            /\ UNCHANGED <<pollInterval, pollTimeout>>
    /\ UNCHANGED <<nextId, subAgent, initialExecution, triggerCalls, execution, response, pollRet,
                   inFlight>>
    /\ UNCHANGED libVars

\* the catch block of handleSubmit
HandleError(s) ==
    /\ running = s
    /\ pc[s] \in {"catchNetwork", "catchOther"}
    /\ \E q \in Outcomes :
        /\ updateExecution(initialExecution[s],
                           failedUpdate(IF pc[s] = "catchNetwork" THEN "NETWORK_ERROR"
                                        ELSE "EXECUTION_ERROR", "Error"), q)
        /\ IF holders(executions, initialExecution[s]) = {} THEN UNCHANGED storageFaults
           ELSE countWrite(q)
    /\ pc' = [pc EXCEPT ![s] = "done"]
    /\ running' = 0
    /\ UNCHANGED <<nextId, subAgent, initialExecution, thrown, triggerCalls, execution, response, pollRet, pollInterval,
                   pollTimeout, inFlight>>
    /\ UNCHANGED libVars

\* What the poll-execution route answers: the most recent engine job is
\* finished ('completed'), is not ('processing'), or an answer without a
\* usable status (no job found, an engine error, a failed request).
PollAnswers == {"completed", "processing", "other"}

\* the setInterval callback up to its fetch
PollTick(s) ==
    /\ running = 0
    /\ pollInterval[s]
    /\ inFlight[s] < MaxInFlight
    /\ inFlight' = [inFlight EXCEPT ![s] = @ + 1]
    /\ UNCHANGED <<executions, currentExecution, isExecuting, localStorage, nextId, addSeq, hydrated,
                   storageFaults, pc, subAgent, initialExecution, thrown, triggerCalls, execution, response, pollRet,
                   pollInterval, pollTimeout, running>>
    /\ UNCHANGED libVars

\* the update the poll callback makes for an answer with a terminal status
pollUpdate(r) ==
    IF r = "completed" THEN completedUpdate(Output("video", "undefined", FALSE))
    ELSE failedUpdate("GENERATION_FAILED", "none")

\* the setInterval callback after its fetch was answered
PollAnswer(s) ==
    /\ running = 0
    /\ inFlight[s] > 0
    /\ inFlight' = [inFlight EXCEPT ![s] = @ - 1]
    /\ \E r \in PollAnswers :
        IF r \in {"completed", "failed"}
        THEN /\ pollInterval' = [pollInterval EXCEPT ![s] = FALSE]
             /\ \E q \in Outcomes :
                 /\ updateExecution(initialExecution[s], pollUpdate(r), q)
                 /\ IF holders(executions, initialExecution[s]) = {}
                    THEN UNCHANGED storageFaults ELSE countWrite(q)
        ELSE UNCHANGED <<executions, currentExecution, isExecuting, localStorage, addSeq, hydrated,
                         storageFaults, pollInterval>>
    /\ UNCHANGED <<nextId, pc, subAgent, initialExecution, thrown, triggerCalls, execution, response, pollRet, pollTimeout,
                   running>>
    /\ UNCHANGED libVars

\* a variant of the setTimeout callback that stops the timers and records nothing
PollTimeoutWithoutUpdate(s) ==
    /\ running = 0
    /\ pollTimeout[s]
    /\ pollTimeout' = [pollTimeout EXCEPT ![s] = FALSE]
    /\ pollInterval' = [pollInterval EXCEPT ![s] = FALSE]
    /\ UNCHANGED <<storeVars, pc, subAgent, initialExecution, thrown, triggerCalls, execution,
                   response, pollRet, inFlight, running>>
    /\ UNCHANGED libVars

\* the setTimeout callback
PollTimeout(s) ==
    /\ running = 0
    /\ pollTimeout[s]
    /\ pollTimeout' = [pollTimeout EXCEPT ![s] = FALSE]
    /\ pollInterval' = [pollInterval EXCEPT ![s] = FALSE]
    /\ \E q \in Outcomes :
        /\ updateExecution(initialExecution[s], failedUpdate("TIMEOUT", "none"), q)
        /\ IF holders(executions, initialExecution[s]) = {} THEN UNCHANGED storageFaults
           ELSE countWrite(q)
    /\ UNCHANGED <<nextId, pc, subAgent, initialExecution, thrown, triggerCalls, execution, response, pollRet, inFlight,
                   running>>
    /\ UNCHANGED libVars

\* the mount effect of a ChatContainer; MainArea mounts one for the selected
\* agent of the registry
MountLoadHistory ==
    /\ running = 0
    /\ \E a \in DOMAIN AGENTS : loadHistory(a)
    /\ UNCHANGED <<nextId, storageFaults>>
    /\ UNCHANGED subVars
    /\ UNCHANGED libVars

\* the history of an agent of the registry is cleared
UserClearHistory ==
    /\ running = 0
    /\ \E a \in DOMAIN AGENTS, available \in BOOLEAN :
           /\ ~available => storageFaults < MaxStorageFaults
           /\ clearHistory(a, available)
           /\ storageFaults' = IF available THEN storageFaults ELSE storageFaults + 1
    /\ UNCHANGED nextId
    /\ UNCHANGED subVars
    /\ UNCHANGED libVars

Init == InitSubs /\ InitStore({1})

Next ==
    \/ \E s \in Subs : Submit(s)
    \/ \E s \in Subs : Dispatch(s)
    \/ \E s \in Subs : TransportReturn(s)
    \/ \E s \in Subs : SleepDone(s)
    \/ \E s \in Subs : HandleResult(s)
    \/ \E s \in Subs : HandleError(s)
    \/ \E s \in Subs : PollTick(s)
    \/ \E s \in Subs : PollAnswer(s)
    \/ \E s \in Subs : PollTimeout(s)
    \/ MountLoadHistory
    \/ UserClearHistory

Spec == Init /\ [][Next]_vars

\* The same system over a storage that never fails: the environment's budget
\* of storage faults is used up from the start.
InitReliable ==
    /\ InitSubs
    /\ executions = EmptyMap
    /\ currentExecution = Null
    /\ isExecuting = FALSE
    /\ nextId = 1
    /\ storageFaults = MaxStorageFaults
    /\ hydrated = {}
    /\ localStorage = Put(EmptyMap, getExecutionKey(VEO3_AGENT), storedHistory(VEO3_AGENT, 1))
    /\ addSeq = [id \in {101} |-> 1]

SpecReliable == InitReliable /\ [][Next]_vars

\* The system over a reliable storage with its scheduling: the synchronous
\* continuations of handleSubmit run on, and a scheduled setTimeout fires.
Fairness ==
    \A s \in Subs :
        /\ WF_vars(Dispatch(s))
        /\ WF_vars(HandleResult(s))
        /\ WF_vars(HandleError(s))
        /\ WF_vars(PollTimeout(s))

SpecLive == InitReliable /\ [][Next]_vars /\ Fairness

\* The same with every awaited call settling as well: the transport call
\* returns, the sleep of pollForResult ends, a poll request is answered.
FairnessAwaited ==
    \A s \in Subs :
        /\ WF_vars(TransportReturn(s))
        /\ WF_vars(SleepDone(s))
        /\ WF_vars(PollAnswer(s))

SpecSettling == InitReliable /\ [][Next]_vars /\ Fairness /\ FairnessAwaited

\* One call of retryWithBackoff, beside a store nothing acts on.
SpecRetry == InitReliable /\ [][NextRetry]_vars

\* saveExecutions driven directly over lists of several lengths
SpecSave == InitReliable /\ [][NextSave]_vars

\* functions of the services called directly with inputs of every kind
SpecCalls == InitReliable /\ [][NextCalls]_vars

-----------------------------------------------------------------------------
(* Properties *)

IsSet(x) == x # Undefined

\* the status changes an Execution may make
AllowedStep(from, to) ==
    \/ from = to
    \/ <<from, to>> \in {<<"pending", "processing">>, <<"processing", "completed">>,
                         <<"processing", "failed">>}

\* C1: in every step, every Execution the State Container holds before and
\* after the step keeps its status or moves pending -> processing, processing
\* -> completed or processing -> failed; a completed or failed Execution never
\* changes its status again.
C1_StatusMonotonic ==
    [][\A a \in (DOMAIN executions) \cap (DOMAIN executions') :
         \A i \in 1..Len(executions[a]), j \in 1..Len(executions'[a]) :
            executions[a][i].id = executions'[a][j].id
                => AllowedStep(executions[a][i].status, executions'[a][j].status)]_vars

\* C2: whatever pollForResult returns for an initial response without data is
\* terminal: completed, or failed with code EXECUTION_TIMEOUT; it is never
\* processing.
C2_PollReturnsTerminal ==
    \A s \in Subs :
        pollRet[s] # Null =>
            /\ pollRet[s].status \in Terminal
            /\ pollRet[s].status = "failed" => pollRet[s].error.code = "EXECUTION_TIMEOUT"

\* C3: when the transport response carries no data and the agent has no
\* positive maxExecutionTime, the Execution executeAgent returns is processing
\* and carries no output.
C3_NoAssumedResult ==
    \A s \in Subs :
        (/\ pc[s] = "returned"
         /\ response[s] = "noData"
         /\ ~pollingConfigured(AGENTS[subAgent[s]]))
            => /\ execution[s].status = "processing"
               /\ ~IsSet(execution[s].output)

\* C4: every agent's in-memory list and every agent's persisted array holds at
\* most MAX_EXECUTIONS_PER_AGENT entries.
C4_Capped ==
    /\ \A a \in DOMAIN executions : Len(executions[a]) <= MAX_EXECUTIONS_PER_AGENT
    /\ \A k \in DOMAIN localStorage : Len(localStorage[k]) <= MAX_EXECUTIONS_PER_AGENT

\* the step is an add of a new execution to agent a's list
addedTo(a) ==
    /\ nextId' = nextId + 1
    /\ a \in DOMAIN executions'
    /\ executions'[a] # <<>>
    /\ executions'[a][1].id = nextId

\* the in-memory list of a after the add is the new execution followed by all
\* entries of the full list but its last, in their order
evictsOldest(a) ==
    /\ executions'[a][1].id \notin Ids(executions[a])
    /\ executions'[a] =
           <<executions'[a][1]>> \o SubSeq(executions[a], 1, MAX_EXECUTIONS_PER_AGENT - 1)

\* the persisted array of a after the step is the serialized in-memory list
persistedMirrors(a) ==
    /\ getExecutionKey(a) \in DOMAIN localStorage'
    /\ localStorage'[getExecutionKey(a)] = stringify(executions'[a])

newestFirst(list) ==
    \A i, j \in 1..Len(list) :
        (i < j /\ list[i].id \in DOMAIN addSeq /\ list[j].id \in DOMAIN addSeq)
            => addSeq[list[i].id] > addSeq[list[j].id]

C6_NewestFirst ==
    /\ \A a \in DOMAIN executions : newestFirst(executions[a])
    /\ \A k \in DOMAIN localStorage : newestFirst(localStorage[k])

C6_PositionsKept ==
    \A a \in (DOMAIN executions) \cap (DOMAIN executions') :
        Ids(executions[a]) = Ids(executions'[a]) => IdSeq(executions[a]) = IdSeq(executions'[a])

\* C6: every list, in memory and persisted, is ordered newest-first by the
\* completion of the adds, and a step that adds or removes no entry of a list
\* (an update) leaves every entry of it at its position.
C6_OrderedByAdd == []C6_NewestFirst /\ [][C6_PositionsKept]_vars

\* a list that holds the loaded history last, before it the execution of the
\* first submission, completed by a poll answer, and first the execution of
\* the second submission, still processing
C6_Witness ==
    \E a \in DOMAIN executions :
        /\ Len(executions[a]) >= 3
        /\ executions[a][1].id = initialExecution[2]
        /\ executions[a][2].id = initialExecution[1]
        /\ executions[a][3].id = 101
        /\ executions[a][2].status = "completed"
        /\ executions[a][1].status = "processing"
        /\ pollTimeout[1]
        /\ pc[2] = "trigger"

\* C7: isExecuting is true exactly when there is a current execution and its
\* status is pending or processing.
C7_IsExecutingDerived == isExecuting <=> executing(currentExecution)

\* completedAt is set exactly on the terminal statuses
completedAtMatches(e) == IsSet(e.completedAt) <=> e.status \in Terminal

\* C8: every Execution executeAgent returns and every Execution the State
\* Container holds has completedAt set if and only if it is completed or failed.
C8_CompletedAtIffTerminal ==
    /\ \A s \in Subs : pc[s] = "returned" => completedAtMatches(execution[s])
    /\ \A e \in AllExecutions : completedAtMatches(e)

\* output only on completed, error only on failed
outcomeMatches(e) ==
    /\ IsSet(e.output) => e.status = "completed"
    /\ IsSet(e.error) => e.status = "failed"

\* C9: every Execution executeAgent returns and every Execution the State
\* Container holds carries an output only when completed and an error only
\* when failed.
C9_OutputAndErrorMatchStatus ==
    /\ \A s \in Subs : pc[s] = "returned" => outcomeMatches(execution[s])
    /\ \A e \in AllExecutions : outcomeMatches(e)

\* the execution handleSubmit added for submission s, if the store holds it
held(s) == {e \in AllExecutions : e.id = initialExecution[s]}

\* C11: a submission whose poll-timeout timer is scheduled leads to a state in
\* which its execution is completed or failed, or has left the State
\* Container; and the step in which the poll-timeout timer fires leaves the
\* execution, if the State Container still holds it, completed or failed.
C11_PollingEnds ==
    /\ \A s \in Subs :
          pollTimeout[s] ~> (\A e \in held(s) : e.status \in Terminal)
    /\ [][\A s \in Subs :
            (pollTimeout[s] /\ ~pollTimeout'[s])
                => \A a \in DOMAIN executions' : \A i \in 1..Len(executions'[a]) :
                       executions'[a][i].id = initialExecution[s]
                           => executions'[a][i].status \in Terminal]_vars

\* the poll-timeout timer of a submission has fired while its execution was
\* still processing, and the State Container holds it as failed with TIMEOUT
C11_Witness ==
    \E s \in Subs : \E e \in held(s) :
        /\ pc[s] = "done"
        /\ ~pollTimeout[s]
        /\ e.status = "failed"
        /\ e.error.code = "TIMEOUT"
        /\ e.output = Undefined

\* C10: once the State Container holds a submission's execution as completed
\* or failed, neither the repeating poll timer nor the poll-timeout timer of
\* that submission is still scheduled.
C10_TimersCleared ==
    \A s \in Subs :
        (\E e \in AllExecutions : e.id = initialExecution[s] /\ e.status \in Terminal)
            => (~pollInterval[s] /\ ~pollTimeout[s])

\* the persisted arrays hold an entry with this id
persisted(id) ==
    \E k \in DOMAIN localStorage : \E i \in 1..Len(localStorage[k]) : localStorage[k][i].id = id

\* C12: a submission for an agent the registry does not hold raises an error
\* whose normalized code is AGENT_NOT_FOUND, and no Execution of it is created
\* by executeAgent, held by the State Container or persisted.
C12_MissingAgentRejected ==
    \A s \in Subs :
        (pc[s] # "idle" /\ subAgent[s] \notin DOMAIN AGENTS)
            => /\ thrown[s] # NoError => parseError(thrown[s]).code = "AGENT_NOT_FOUND"
               /\ execution[s] = Null
               /\ held(s) = {}
               /\ ~persisted(initialExecution[s])

\* the transport call or the parsing of its data threw inside executeAgent
threwInside(s) ==
    /\ execution[s] # Null
    /\ \/ response[s] \in {"NetworkError", "WebhookError"}
       \/ parseThrows(AGENTS[subAgent[s]].outputType, response[s])

\* the error that was thrown inside executeAgent
originalError(s) ==
    IF response[s] \in {"NetworkError", "WebhookError"} THEN transportError(response[s])
    ELSE SyntaxError

\* C13: when the transport call or the output parsing throws inside
\* executeAgent, the call does not return: the error raised to handleSubmit is
\* the error that was thrown, and the Execution of the call is failed with code
\* EXECUTION_FAILED, that error as details and completedAt set.
C13_FailureRecordedAndRethrown ==
    \A s \in Subs :
        threwInside(s)
            => /\ pc[s] \in {"catchNetwork", "catchOther", "done"}
               /\ thrown[s] = originalError(s)
               /\ pc[s] = "catchNetwork" <=> (pc[s] # "done" /\ thrown[s].class = "NetworkError")
               /\ execution[s].status = "failed"
               /\ execution[s].error = [code |-> "EXECUTION_FAILED", details |-> thrown[s]]
               /\ IsSet(execution[s].completedAt)

\* executeAgent has thrown the SyntaxError of parseOutput into the catch of
\* handleSubmit
C13_Witness ==
    \E s \in Subs :
        /\ pc[s] = "catchOther"
        /\ response[s] = "badData"
        /\ thrown[s] = SyntaxError
        /\ execution[s].status = "failed"

\* the calls of the operation made so far by retryWithBackoff
Calls == {retry.calls[i] : i \in 1..Len(retry.calls)}

\* C14: a trigger that the engine answers with status 404, sent directly or
\* through the proxy, throws a WebhookError (code WEBHOOK_ERROR) with status
\* 404 and the not-found message; its normalized code is not NETWORK_ERROR.
C14_NotFoundIsWebhookError ==
    \A c \in Calls :
        (c.op.kind = "trigger" /\ c.op.engine.status = 404)
            => /\ ~c.result.ok
               /\ c.result.error.class = "WebhookError"
               /\ c.result.error.statusCode = 404
               /\ c.result.error.responseBody = notFoundMessage
               /\ parseError(c.result.error).code = "WEBHOOK_ERROR"

\* both a trigger through the proxy and a direct trigger met an engine 404
C14_Witness ==
    \E c, d \in Calls :
        /\ c.op.kind = "trigger" /\ c.op.via = "proxy" /\ c.op.engine.status = 404
        /\ d.op.kind = "trigger" /\ d.op.via = "direct" /\ d.op.engine.status = 404
        /\ c.result.error.statusCode = 404

\* every call so far was a trigger that met a refused connection
allRefused == \A c \in Calls : c.op.kind = "trigger" /\ c.op.engine = Refused

\* C15: a trigger whose connection fails throws an error of code NETWORK_ERROR;
\* when every attempt fails that way under the default policy, retryWithBackoff
\* calls the operation exactly 3 times, waits 1000 ms after the first failure
\* and 2000 ms after the second, does not wait after the third, and raises it.
C15_ConnectionFailureRetried ==
    /\ \A c \in Calls :
        (c.op.kind = "trigger" /\ c.op.engine = Refused)
            => /\ ~c.result.ok
               /\ c.result.error.code = "NETWORK_ERROR"
               /\ parseError(c.result.error).code = "NETWORK_ERROR"
    /\ (retry.config = DEFAULT_RETRY_CONFIG /\ retry.pc # "idle" /\ allRefused)
        => /\ Len(retry.calls) <= 3
           /\ retry.pc \in {"attempt", "wait", "raised"}
           /\ retry.pc = "raised"
                => /\ Len(retry.calls) = 3
                   /\ retry.waits = <<1000, 2000>>
                   /\ retry.raised = retry.calls[3].result.error
           /\ retry.pc = "wait" => Len(retry.waits) = Len(retry.calls)
           /\ retry.pc = "attempt" => Len(retry.waits) = Len(retry.calls)
           /\ \A i \in 1..Len(retry.waits) : retry.waits[i] = <<1000, 2000>>[i]

\* the default policy gave up after three refused connections
C15_Witness ==
    /\ retry.config = DEFAULT_RETRY_CONFIG
    /\ retry.pc = "raised"
    /\ allRefused
    /\ Len(retry.calls) = 3
    /\ retry.waits = <<1000, 2000>>
    /\ retry.raised.code = "NETWORK_ERROR"

\* the i-th call failed with an error whose normalized code is not retryable
notRetryable(i) ==
    /\ ~retry.calls[i].result.ok
    /\ parseError(retry.calls[i].result.error).code \notin retry.config.retryableErrors

\* C16: after a failure whose normalized code is not in the retryable set
\* retryWithBackoff calls the operation no more and waits no delay; then, and
\* after the failure of the last attempt, it raises the value the operation
\* threw, not the normalized error.
C16_OriginalErrorRaised ==
    /\ \A i \in 1..Len(retry.calls) :
        notRetryable(i)
            => /\ i = Len(retry.calls)
               /\ Len(retry.waits) = i - 1
               /\ retry.pc = "raised"
    /\ (retry.pc = "raised" /\ retry.calls # <<>>)
        => LET last == retry.calls[Len(retry.calls)] IN
           /\ ~last.result.ok
           /\ notRetryable(Len(retry.calls)) \/ Len(retry.calls) = retry.config.maxAttempts
           /\ retry.raised = last.result.error
           /\ retry.raised # parseError(last.result.error)
           /\ Len(retry.waits) = Len(retry.calls) - 1
    /\ "UNKNOWN_ERROR" \notin DEFAULT_RETRY_CONFIG.retryableErrors
    /\ DEFAULT_RETRY_CONFIG.retryableErrors = {"NETWORK_ERROR", "WEBHOOK_ERROR"}

\* under the default policy a second attempt threw a string, which was raised
\* as it was thrown after the one delay of the first failure
C16_Witness ==
    /\ retry.pc = "raised"
    /\ Len(retry.calls) = 2
    /\ retry.config = DEFAULT_RETRY_CONFIG
    /\ notRetryable(2)
    /\ retry.raised = StringError
    /\ retry.waits = <<1000>>

\* C17: one executeAgent call calls the transport's trigger at most once,
\* whatever the transport reports and whatever settings.retryAttempts is.
C17_TriggeredAtMostOnce ==
    \A s \in Subs :
        /\ triggerCalls[s] <= 1
        /\ pc[s] \in {"trigger", "sleep", "returned", "catchNetwork"} => triggerCalls[s] = 1

\* for an agent with retryAttempts 3 the one transport call failed with a
\* NetworkError and executeAgent has thrown it
C17_Witness ==
    \E s \in Subs :
        /\ subAgent[s] \in DOMAIN AGENTS
        /\ AGENTS[subAgent[s]].retryAttempts = 3
        /\ pc[s] = "catchNetwork"
        /\ thrown[s].class = "NetworkError"
        /\ execution[s].status = "failed"
        /\ triggerCalls[s] = 1

\* the partial field sets the callers of updateExecution pass, and the empty one
PartialUpdates ==
    {statusUpdate("processing"),
     completedUpdate(Output("video", "url", FALSE)),
     failedUpdate("TIMEOUT", "none"),
     [status |-> "pending"]}

\* identifiers an update is tried for: the first and the last of every list,
\* the current execution's, and one that no list holds
ProbeIds ==
    {executions[a][1].id : a \in {b \in DOMAIN executions : executions[b] # <<>>}}
    \cup {executions[a][Len(executions[a])].id :
            a \in {b \in DOMAIN executions : executions[b] # <<>>}}
    \cup (IF currentExecution = Null THEN {} ELSE {currentExecution.id})
    \cup {nextId}

\* the outcomes the save of an update can have in the current state
ProbeOutcomes == SaveOutcomes(SUBSET overLimit(localStorage))

placesOf(id) ==
    UNION {{<<a, i>> : i \in {j \in 1..Len(executions[a]) : executions[a][j].id = id}} :
              a \in DOMAIN executions}

\* C19: updateExecution finds the execution in whichever agent's list holds
\* it, also when the current execution belongs to another agent; the entry is
\* replaced at its index by the merged record, and the length of the list, its
\* other entries and the other agents' lists stay as they were.
C19_UpdateInPlace ==
    \A id \in ProbeIds, u \in PartialUpdates, q \in ProbeOutcomes :
        LET after == afterUpdate(storeState, id, u, q).executions IN
        /\ DOMAIN after = DOMAIN executions
        /\ \A a \in DOMAIN executions :
            /\ Len(after[a]) = Len(executions[a])
            /\ \A i \in 1..Len(executions[a]) :
                after[a][i] = IF <<a, i>> \in placesOf(id)
                              THEN merge(executions[a][i], u)
                              ELSE executions[a][i]

\* an update has changed an execution in one agent's list while the current
\* execution belongs to another agent, whose list is not empty
C19_Witness ==
    \E a, b \in DOMAIN executions :
        /\ a # b
        /\ currentExecution # Null /\ currentExecution.agentId = b
        /\ executions[b] # <<>>
        /\ \E i \in 1..Len(executions[a]) :
            /\ executions[a][i].id < nextId
            /\ executions[a][i].status # "pending"
            /\ currentExecution.id # executions[a][i].id

\* C20: loadHistory reads the storage at most once per agent: once
\* loadHistory(a) has read it, no later step reads it again for a, that is, a
\* list for a that the store does not hold comes back only through an add.
C20_HydratedOnce ==
    [][\A a \in hydrated :
          (a \notin DOMAIN executions /\ a \in DOMAIN executions')
              => (addSeq' # addSeq /\ currentExecution'.agentId = a)]_vars

\* what clearHistory(a) must leave: no list and no persisted record for a, the
\* pointer null if it pointed to an execution of a and as it was otherwise, the
\* lists and persisted records of the other agents as they were
cleared(st, after, a) ==
    /\ a \notin DOMAIN after.executions
    /\ getExecutionKey(a) \notin DOMAIN after.localStorage
    /\ after.currentExecution =
           IF st.currentExecution # Null /\ st.currentExecution.agentId = a
           THEN Null ELSE st.currentExecution
    /\ \A b \in (DOMAIN st.executions) \ {a} :
           b \in DOMAIN after.executions /\ after.executions[b] = st.executions[b]
    /\ DOMAIN after.executions \subseteq DOMAIN st.executions
    /\ \A k \in (DOMAIN st.localStorage) \ {getExecutionKey(a)} :
           k \in DOMAIN after.localStorage /\ after.localStorage[k] = st.localStorage[k]
    /\ DOMAIN after.localStorage \subseteq DOMAIN st.localStorage

\* C21 as stated: after clearHistory(a) agent a has no list and no persisted
\* record, the pointer is null if it pointed to an execution of a and unchanged
\* otherwise, and the other agents' lists and records are unchanged.
C21_ClearedEverywhere ==
    \A a \in AgentIds, available \in BOOLEAN :
        cleared(storeState, afterClear(storeState, a, available), a)

\* C21 as amended: the same when the storage is available during the call;
\* when it is not, the in-memory effects are the same and the storage is left
\* as it was.
C21_Cleared ==
    \A a \in AgentIds :
        /\ cleared(storeState, afterClear(storeState, a, TRUE), a)
        /\ LET after == afterClear(storeState, a, FALSE) IN
           /\ cleared([storeState EXCEPT !.localStorage = EmptyMap],
                      [after EXCEPT !.localStorage = EmptyMap], a)
           /\ after.localStorage = localStorage

\* an agent whose history was loaded has been cleared from memory and from the
\* storage while another agent, which owns the current execution, keeps its
\* list and its record
C21_Witness ==
    \E a \in hydrated, b \in DOMAIN executions :
        /\ a # b
        /\ a \notin DOMAIN executions
        /\ getExecutionKey(a) \notin DOMAIN localStorage
        /\ executions[b] # <<>>
        /\ getExecutionKey(b) \in DOMAIN localStorage
        /\ currentExecution # Null /\ currentExecution.agentId = b

\* the persisted record of a after the step, read back, is the in-memory list
\* of a after the step; no record where there is no list
mirrored(a) ==
    IF a \in DOMAIN executions'
    THEN /\ getExecutionKey(a) \in DOMAIN localStorage'
         /\ loadExecutions(localStorage', a) = executions'[a]
    ELSE getExecutionKey(a) \notin DOMAIN localStorage'

\* the step is an add, an update or a clear that changes the in-memory list of
\* a (a load gives a a list without an add) and no storage call of it failed
mutated(a) ==
    /\ \/ listOf(executions, a) # listOf(executions', a)
       \/ (a \in DOMAIN executions) # (a \in DOMAIN executions')
    /\ ~(a \notin DOMAIN executions /\ a \in DOMAIN executions' /\ addSeq' = addSeq)
    /\ storageFaults' = storageFaults

\* C22: after each add, update or clearHistory whose storage write succeeds at
\* the first attempt, the persisted array of the affected agent holds the same
\* executions in the same order with the same fields as the in-memory list.
C22_Mirrored ==
    [][\A a \in AgentIds : mutated(a) => mirrored(a)]_vars

\* the attempts of a saveExecutions call in the order of the code
AttemptOrder == <<"full", "ten", "freeUp", "five">>

\* the identifiers of the stored record of the agent of the followed call
storedIds == IdSeq(save.ls[getExecutionKey(save.agentId)])

\* C23: when the write of a 40-entry list fails with quota-exceeded, the
\* stored record holds exactly the 10 most recent entries if the second
\* attempt succeeds and exactly the 5 most recent if the second fails and the
\* third succeeds; the attempts come in the order full list, 10 entries,
\* free-up, 5 entries.
C23_QuotaDegradation ==
    /\ Len(save.attempts) <= 4
    /\ \A i \in 1..Len(save.attempts) : save.attempts[i] = AttemptOrder[i]
    /\ (save.pc = "returned" /\ Len(save.list) = 40 /\ save.attempts = <<"full", "ten">>)
        => /\ save.ls[getExecutionKey(save.agentId)] = stringify(SubSeq(save.list, 1, 10))
           /\ storedIds = [i \in 1..10 |-> 141 - i]
    /\ (save.pc = "returned" /\ Len(save.list) = 40 /\ save.attempts = AttemptOrder)
        => /\ save.ls[getExecutionKey(save.agentId)] = stringify(SubSeq(save.list, 1, 5))
           /\ storedIds = [i \in 1..5 |-> 141 - i]

\* a 40-entry list was stored as its 5 most recent entries after the full
\* write and the 10-entry write failed and the free-up truncated another
\* agent's record
C23_Witness ==
    /\ save.pc = "returned"
    /\ Len(save.list) = 40
    /\ save.attempts = AttemptOrder
    /\ Len(save.ls[getExecutionKey(save.agentId)]) = 5
    /\ getExecutionKey(otherAgent(save.agentId)) \in DOMAIN save.ls
    /\ Len(save.ls[getExecutionKey(otherAgent(save.agentId))]) = FREE_UP_LIMIT

\* the results of the setItem calls of the followed saveExecutions call
setItemResults ==
    {save.results[i] : i \in {j \in 1..Len(save.results) : save.attempts[j] # "freeUp"}}

\* C24: when the full write, the 10-entry retry and the 5-entry retry all fail
\* with quota-exceeded, saveExecutions raises a quota-exceeded error to its
\* caller; when one of the three attempts succeeds nothing is raised.
C24_RaisedWhenAllFail ==
    /\ (/\ save.attempts = AttemptOrder
        /\ \A i \in {1, 2, 4} : save.results[i] = "quota")
        => /\ save.pc = "raised"
           /\ save.raised = QuotaExceededError
           /\ save.raised.code = "QUOTA_EXCEEDED"
    /\ "ok" \in setItemResults
        => /\ save.pc = "returned"
           /\ save.raised = NoError
           /\ save.results[Len(save.results)] = "ok"
    /\ save.pc \in {"idle", "full", "ten", "freeUp", "five", "returned"} => save.raised = NoError

\* the three attempts failed with quota-exceeded and the error was raised
C24_Witness ==
    /\ save.pc = "raised"
    /\ save.attempts = AttemptOrder
    /\ save.results = <<"quota", "quota", "done", "quota">>
    /\ save.raised = QuotaExceededError

\* the empty result of the function of the last call
emptyResult == IF call.fn = "loadExecutions" THEN <<>> ELSE EmptyObject

\* the last call was a read
isRead == call.fn \in {"loadExecutions", "loadPreferences"}

\* the JSON value is not what the function expects: an array of executions
\* for loadExecutions, an object for loadPreferences
wrongShape(fn, v) ==
    IF fn = "loadExecutions"
    THEN v.t # "array" \/ (\E i \in 1..Len(v.items) : v.items[i] # JExecution)
    ELSE v.t # "object"

\* C25 as stated: a read of an agent's executions or of the preferences never
\* raises; a missing key, a value that is malformed JSON and a value that is
\* JSON of the wrong shape all yield the empty result.
C25_ReadsYieldEmptyOnBadShape ==
    isRead =>
        /\ ~call.result.raised
        /\ (call.data = Missing \/ parseThrowsOn(call.data)) => call.result.value = emptyResult
        /\ (call.data.k = "json" /\ wrongShape(call.fn, call.data.v))
            => call.result.value = emptyResult

\* C25 as amended: a read never raises; a missing key and a value that is
\* malformed JSON yield the empty result; of JSON of another shape only a
\* value that is no array, or an array with a null element, yields [] for the
\* executions, and the preferences are returned as parsed.
C25_ReadsNeverRaise ==
    isRead =>
        /\ ~call.result.raised
        /\ (call.data = Missing \/ parseThrowsOn(call.data)) => call.result.value = emptyResult
        /\ (call.fn = "loadExecutions" /\ call.data.k = "json" /\ call.available)
            => IF call.data.v.t # "array" \/ (\E i \in 1..Len(call.data.v.items) : call.data.v.items[i] = JNull)
               THEN call.result.value = <<>>
               ELSE Len(call.result.value) = Len(call.data.v.items)
        /\ (call.fn = "loadPreferences" /\ call.data.k = "json" /\ call.available)
            => call.result.value = call.data.v

\* the preferences were read from a value that is not JSON, and {} came back
C25_Witness ==
    /\ call.fn = "loadPreferences"
    /\ call.available
    /\ call.data = RawText("{bad")
    /\ call.result = [raised |-> FALSE, value |-> EmptyObject]

\* C26: export followed by import into an emptied storage leaves every key
\* under the namespace with the text it had (texts of the same JSON value
\* being equal), whatever that text was, and writes no key outside the
\* namespace.
C26_ExportImportRoundTrip ==
    (call.fn = "exportImport" /\ call.result.raised = "none")
        => /\ \A k \in DOMAIN call.store :
               startsWithPrefix(k)
                   => k \in DOMAIN call.result.ls /\ call.result.ls[k] = call.store[k]
           /\ \A k \in DOMAIN call.result.ls : startsWithPrefix(k)

\* C27: the availability check, made directly or through the health endpoint
\* (which is answered), returns true exactly when the engine answers the HEAD
\* probe with a 2xx or a 404 status, and false for any other status and for a
\* connection that fails.
C27_AvailableIff2xxOr404 ==
    (call.fn = "checkServiceAvailability" /\ (call.useProxy => call.healthReachable))
        => (call.result.value
                <=> (call.engineStatus \in 200..299 \/ call.engineStatus = 404))

carriesParameters ==
    /\ DOMAIN call.result.value = {"prompt"} \cup DOMAIN call.input.parameters
    /\ \A k \in DOMAIN call.input.parameters :
           call.result.value[k] = call.input.parameters[k]

\* input.prompt, the empty string when absent
promptOrEmpty == IF call.input.prompt = "undefined" THEN "" ELSE call.input.prompt

\* C29 as stated: for a text agent the payload has prompt equal to input.prompt
\* (the empty string when absent) and carries every entry of input.parameters
\* under its own key and nothing else; with no parameters it is {prompt}.
C29_PromptAlwaysFromInput ==
    (call.fn = "formatPayload" /\ call.schemaType = "text")
        => /\ call.result.value["prompt"] = promptOrEmpty
           /\ carriesParameters

\* C29: for a text agent the payload carries every entry of input.parameters
\* under its own key and, besides these, prompt alone, which is input.prompt
\* (the empty string when absent) unless a parameter is itself named prompt;
\* with no parameters the payload is exactly {prompt: input.prompt}.
C29_TextPayload ==
    (call.fn = "formatPayload" /\ call.schemaType = "text")
        => /\ carriesParameters
           /\ "prompt" \notin DOMAIN call.input.parameters
                  => call.result.value["prompt"] = promptOrEmpty
           /\ DOMAIN call.input.parameters = {}
                  => call.result.value = [k \in {"prompt"} |-> promptOrEmpty]

\* formatPayload was called for a text agent with the prompt "a red fox" and
\* the parameters aspectRatio and prompt
C29_Witness ==
    /\ call.fn = "formatPayload" /\ call.schemaType = "text"
    /\ call.input.prompt = "a red fox"
    /\ DOMAIN call.input.parameters = {"aspectRatio", "prompt"}
    /\ call.input.parameters["prompt"] = "a blue cat"
    /\ call.result.value["aspectRatio"] = call.input.parameters["aspectRatio"]

\* C30: whenever a submission has been added to the State Container,
\* isExecuting is false again at some later time (transport calls returning
\* and timers firing), also when clearHistory runs in between.
C30_InputReenabled ==
    \A s \in Subs : (pc[s] = "added") ~> ~isExecuting

\* C31: an add for an agent whose history loadHistory has not read yet keeps
\* what is persisted for that agent: when the write succeeds, the persisted
\* array is afterwards the new execution followed by the entries persisted
\* before (up to the cap), and the in-memory list holds them as well.
C31_UnhydratedAddKeepsHistory ==
    [][\A a \in AgentIds :
         (/\ addedTo(a)
          /\ a \notin DOMAIN executions
          /\ getExecutionKey(a) \in DOMAIN localStorage
          /\ storageFaults' = storageFaults)
             => LET before == localStorage[getExecutionKey(a)]
                    kept == SubSeq(before, 1, Min(Len(before), MAX_EXECUTIONS_PER_AGENT - 1))
                IN  /\ getExecutionKey(a) \in DOMAIN localStorage'
                    /\ localStorage'[getExecutionKey(a)]
                           = stringify(<<executions'[a][1]>>) \o kept
                    /\ IdSeq(executions'[a]) = <<nextId>> \o IdSeq(kept)]_vars

\* C32: a poll made for a submission marks its execution completed only when
\* the engine job that this submission started has finished; the state of a
\* job of the other submission or of a job from before never completes it.
C32_CompletedByOwnJob ==
    (call.fn = "poll" /\ call.result.value = "completed")
        => \E i \in 1..Len(call.jobs) :
               call.jobs[i].owner = call.s /\ call.jobs[i].finished

\* C33: for a response that reports failure (status "failed", no data),
\* executeAgent does not return an Execution with status completed.
C33_FailedResponseNotCompleted ==
    (call.fn = "executeAgent" /\ call.status = "failed" /\ call.data.kind = "falsy")
        => call.result.status # "completed"

\* the step is one in which submission s calls updateExecution for its
\* execution: in handleSubmit, in its catch, in the poll callback or in the
\* poll-timeout callback
updatesOwn(s) ==
    \/ pc[s] \in {"added", "returned", "catchNetwork", "catchOther"} /\ pc'[s] # pc[s]
    \/ pollTimeout[s] /\ ~pollTimeout'[s]
    \/ inFlight'[s] < inFlight[s]

\* C34: an update for an execution that is in no list (its agent's history
\* was cleared in the meantime) changes nothing: no list, in memory or
\* persisted, is created or changed, and the current execution and
\* isExecuting stay as they are.
C34_UpdateOfUnknownIsNoOp ==
    [][\A s \in Subs :
         (updatesOwn(s) /\ holders(executions, initialExecution[s]) = {})
             => UNCHANGED <<executions, currentExecution, isExecuting, localStorage>>]_vars

\* the only submission made has run to its end after its agent's history was
\* cleared: its final update found the execution in no list, and the store
\* is as clearHistory left it
C34_Witness ==
    \E s \in Subs :
        /\ pc[s] = "done" /\ ~pollTimeout[s] /\ ~pollInterval[s]
        /\ \A t \in Subs \ {s} : pc[t] = "idle"
        /\ held(s) = {}
        /\ subAgent[s] \notin DOMAIN executions
        /\ currentExecution = Null /\ isExecuting

\* C35: for every non-2xx engine response to a trigger forwarded by the proxy,
\* other than the 500 with 'Unused Respond to Webhook', the proxy answers with
\* the engine's status, and the client's error is the one it gives that status
\* (an engine 500 is a WebhookError with status 500, not a NetworkError).
C35_ProxyKeepsEngineStatus ==
    \A c \in Calls :
        (/\ c.op.kind = "trigger" /\ c.op.via = "proxy"
         /\ c.op.engine # Refused /\ ~ok(c.op.engine)
         /\ ~(c.op.engine.status = 500 /\ c.op.engine.body = "Unused Respond to Webhook"))
            => /\ POST(c.op.engine).status = c.op.engine.status
               /\ ~c.result.ok
               /\ c.result.error.class = classify(c.op.engine).error.class
               /\ c.op.engine.status = 500
                      => /\ c.result.error.class = "WebhookError"
                         /\ c.result.error.statusCode = 500

\* C36: a step in which addExecution or updateExecution raises the quota
\* error to handleSubmit leaves the State Container in memory as it was: the
\* lists, the current execution and isExecuting.
C36_RaiseLeavesMemory ==
    [][\A s \in Subs :
         (\/ pc[s] = "idle" /\ pc'[s] = "rejected"
          \/ thrown[s] # QuotaExceededError /\ thrown'[s] = QuotaExceededError)
             => UNCHANGED <<executions, currentExecution, isExecuting>>]_vars

\* C37: freeUpSpace leaves every agent whose stored history has more than
\* FREE_UP_LIMIT entries, and whose own write does not fail, with its
\* FREE_UP_LIMIT most recent entries, whatever happens to the writes of the
\* other agents; histories of FREE_UP_LIMIT entries or fewer are untouched.
C37_TruncatedIndependently ==
    call.fn = "freeUpSpace"
        => \A k \in DOMAIN call.ls :
               IF Len(call.ls[k]) > FREE_UP_LIMIT /\ k[2] \notin call.fails
               THEN call.result.value[k] = SubSeq(call.ls[k], 1, FREE_UP_LIMIT)
               ELSE call.result.value[k] = call.ls[k]

\* C38: under every configuration retryWithBackoff calls the operation at
\* least once before it ends and at most maxAttempts times, makes no call
\* after a successful one and returns then, and what it raises is the error
\* one of its calls threw.
C38_RetryBounds ==
    /\ Len(retry.calls) <= retry.config.maxAttempts \/ retry.pc = "idle"
    /\ retry.pc \in {"returned", "raised"} => Len(retry.calls) >= 1
    /\ \A i \in 1..Len(retry.calls) :
           retry.calls[i].result.ok => i = Len(retry.calls) /\ retry.pc = "returned"
    /\ retry.pc = "returned" => retry.calls[Len(retry.calls)].result.ok
    /\ retry.pc = "raised"
           => \E i \in 1..Len(retry.calls) :
                  ~retry.calls[i].result.ok /\ retry.raised = retry.calls[i].result.error

====
